---- MODULE Spec2Model ----
(***************************************************************************)
(* A model of the MaiBot-Napcat-Adapter protocol bridge and of the         *)
(* maim_message connection router.                                         *)
(*                                                                         *)
(*   Correlation Store   MaiBot-Napcat-Adapter/src/message_queue.py        *)
(*   Inbound Classifier  MaiBot-Napcat-Adapter/main.py                     *)
(*   Forward expansion   MaiBot-Napcat-Adapter/src/recv_handler.py         *)
(*   Outbound flatten    MaiBot-Napcat-Adapter/src/send_handler.py         *)
(*   Connection Router   maim_message/src/maim_message/{api,router}.py     *)
(*                                                                         *)
(* The program runs on one asyncio event loop: the code between two awaits *)
(* that really suspend is one atomic step, and that is the grain of the    *)
(* actions below.                                                          *)
(***************************************************************************)
EXTENDS Integers, Sequences, FiniteSets, TLC

(***************************************************************************)
(* Bounds of the model.                                                    *)
(***************************************************************************)
NumTokens == 2
NumWaiters == 2
MaxPuts == 2
napcat_heartbeat_interval == 1
MaxTime == 2 * napcat_heartbeat_interval + 1
MaxFrames == 4
MaxNodes == 6
MaxSegs == 4
NumPlatforms == 1
MaxRawSegs == 2
NumConfigPlatforms == 2
NumTargets == 2
MaxUpdates == 1
MaxLifecycles == 2
MaxEvents == 3
MaxCalTime == 2
MaxFailures == 3

\* The number of run tasks that lose their entry of _client_tasks.
MaxOrphans == 1

\* The number of websockets the MessageServer accepts.
MaxSockets == 3

\* The retry bound of get_response.  The source sets it to 50 (message_queue.py,
\* line 14); the loop behaves alike for every bound of at least 2, and the model
\* runs it with a small one.
max_retries == 3

\* get_response sleeps 0.2 s between two polls (message_queue.py, line 19): five
\* poll periods are one second.
PollsPerSecond == 5

Tokens == 1..NumTokens
Platforms == 1..NumPlatforms
\* An inbound event, by the fields handle_raw_message reads: sub_type "none"
\* and sender FALSE are a key that the event does not have.
RawEvent(message_type, sub_type, sender, message) ==
    [message_type |-> message_type, sub_type |-> sub_type, sender |-> sender,
     message |-> message]

\* check_heartbeat, line 60: the seconds of silence allowed beyond the interval.
HeartbeatGrace == 3

\* The clock of the heartbeat model runs long enough for a silence to be found.
MaxHbTime == 2 * napcat_heartbeat_interval + HeartbeatGrace + 5

\* The check_heartbeat tasks, one for each lifecycle connect event.
Watchdogs == 1..MaxLifecycles

\* The platforms that update_config is called with, and their targets.
ConfigPlatforms == 1..NumConfigPlatforms
Targets == 1..NumTargets

\* A platform that no route names.
Unrouted == 0
Waiters == 1..NumWaiters
NoResponse == [echo |-> 0, serial |-> 0]

VARIABLES
    \* ---- Correlation Store (message_queue.py) ----
    response_dict,        \* token -> response (a function on the stored tokens)
    response_time_dict,   \* token -> arrival time
    now,                  \* time.time()
    putCount,             \* number of put_response calls so far; names the responses
    wpc,                  \* waiter -> "idle" | "poll" | "returned" | "timeout"
    wreq,                 \* waiter -> request_id of its get_response call
    wretry,               \* waiter -> retry_count of its get_response call
    wres,                 \* waiter -> the response get_response returned
    sweepAt,              \* now_time of the last pass of the sweep, -1 before the first
    cleaned_message_count,\* the number of entries the last pass removed
    putSinceSweep,        \* a put_response ran since the last pass
    sweepClean,           \* the last pass followed another pass with no put_response between
    warning_log,          \* the logger.warning calls of message_queue.py so far
    \* ---- Inbound Classifier (main.py) ----
    conn,                 \* "open" while message_recv reads server_connection, else "closed"
    recvd,                \* the frames message_recv has read, in receipt order
    message_queue,        \* asyncio.Queue: the frames put and not yet got
    handled,              \* the frames message_process has started to handle, in order
    cpc,                  \* message_process: "get" | "handling" | "sleep" | "dead"
    debug_log,            \* number of frames logged by logger.debug, main.py line 17
    \* ---- Forward expansion (recv_handler.py) ----
    message_list,         \* the "messages" of the get_forward_msg response
    handled_message,      \* the tree _handle_forward_message returned
    image_count,          \* the image count _handle_forward_message returned
    forward_result,       \* what handle_forward_message did: status and returned value
    \* ---- Outbound flatten (send_handler.py) ----
    message_segment,      \* the Seg tree of the message MaiBot hands to handle_seg
    processed_message,    \* the payload handle_seg_recursive returned
    send_pc,              \* handle_seg: "build" | "sent" | "nothing" | "unknown"
    sent_action,          \* the action sent to the gateway, "" if none
    sent_echoes,          \* the "echo" of every request handle_seg has sent, in order
    send_end,             \* how send_message_to_napcat ended: "" | "ok" | "failed" | "timeout"
    \* ---- Connection Router (router.py, api.py) ----
    route_config,         \* Router.config.route_config: platform -> its target (url, token)
    router_running,       \* Router._running
    clients,              \* Router.clients: platform -> the fields of its MessageClient
    client_tasks,         \* Router._client_tasks: platform -> where its run() task is
    mon_pc,               \* _monitor_connections: "off" | "sleep" | "scan" | "await_task" |
                          \* "reconnect" | "dead"
    mon_todo,             \* the platforms the scan of the monitor has still to visit
    reachable,            \* platform -> its destination accepts connections
    failedThrice,         \* platform -> a client of it has failed 3 attempts in a row
    last_send,            \* how the last Router.send_message ended, "" if none
    \* ---- Inbound message events (recv_handler.py handle_raw_message) ----
    raw_message,          \* the event: message_type, sub_type, sender, message
    raw_pc,               \* handle_raw_message: "idle" | "submitted" | "unsupported" |
                          \* "empty" | "raised"
    submitted,            \* the MessageBase objects handed to message_process, in order
    raw_lookups,          \* the get_msg requests the last handle_raw_message sent
    \* ---- Router.update_config (router.py) ----
    upd_pc,               \* update_config: "idle" | "removing" (in remove_platform, awaiting
                          \* the cancelled task) | "raised" (ended with a KeyError)
    upd_new,              \* new_config.route_config of the call
    upd_old,              \* route_config when the call began
    upd_remove,           \* _adjust_connections: platforms of the first loop still to do
    upd_add,              \* _adjust_connections: platforms of the second loop still to do
    upd_count,            \* the calls of update_config so far
    \* ---- Heartbeat Monitor (recv_handler.py handle_meta_event, check_heartbeat) ----
    hb_time,              \* time.time() as the heartbeat code reads it
    last_heart_beat,      \* RecvHandler.last_heart_beat, -1 before it is first set
    interval,             \* RecvHandler.interval
    watchdog,             \* check_heartbeat task -> pc ("none" | "watching" | "lost") and
                          \* the time its sleep ends
    lifecycles,           \* the lifecycle connect events so far
    \* ---- Calendar tool (MaiBot calendar_tool.py) ----
    events,               \* CalendarTool.events: the stored events, in the order added
    cal_time,             \* datetime.now().timestamp(), in whole seconds
    cal_added,            \* the events added so far
    cal_result,           \* the dictionary the last operation returned: status and kind
    \* ---- A handler of message_process that awaits a correlated lookup ----
    lookup_at,            \* the number of frames read when the handler sent its request
    \* ---- Router.add_platform, remove_platform and stop (router.py) ----
    orphan_tasks,         \* run tasks that are in no entry of _client_tasks any more
    rm_platform,          \* the platform of a suspended remove_platform, 0 if none
    stop_pc,              \* Router.stop: "idle" | "cancel_tasks" | "await_tasks" | "stopped"
    \* ---- The Correlation Store on a clock of poll periods (message_queue.py) ----
    sweep_window,         \* the configured heartbeat interval in poll periods, -1 before
                          \* the configuration is loaded
    wdue,                 \* waiter -> the time at which its sleep of 0.2 s ends
    \* ---- MessageServer (maim_message api.py) ----
    ws_platform,          \* the accepted websockets in order: websocket -> its platform header
    endpoints,            \* the websockets whose websocket_endpoint is in its receive loop
    active_websockets,    \* MessageServer.active_websockets
    platform_websockets,  \* MessageServer.platform_websockets: platform -> websocket
    last_broadcast        \* how the last broadcast_to_platform ended, "" if none

storeVars == <<response_dict, response_time_dict, now, putCount, wpc, wreq, wretry,
               wres, sweepAt, cleaned_message_count, putSinceSweep, sweepClean, warning_log>>

recvVars == <<conn, recvd, message_queue, handled, cpc, debug_log>>

fwdVars == <<message_list, handled_message, image_count, forward_result>>

sendVars == <<message_segment, processed_message, send_pc, sent_action, sent_echoes,
             send_end>>

routerVars == <<route_config, router_running, clients, client_tasks, mon_pc, mon_todo,
                reachable, failedThrice, last_send>>

rawVars == <<raw_message, raw_pc, submitted, raw_lookups>>

configVars == <<upd_pc, upd_new, upd_old, upd_remove, upd_add, upd_count>>

hbVars == <<hb_time, last_heart_beat, interval, watchdog, lifecycles>>

calVars == <<events, cal_time, cal_added, cal_result>>

nestVars == <<lookup_at>>

lifeVars == <<orphan_tasks, rm_platform, stop_pc>>

timedVars == <<sweep_window, wdue>>

serverVars == <<ws_platform, endpoints, active_websockets, platform_websockets, last_broadcast>>

vars == <<storeVars, recvVars, fwdVars, sendVars, routerVars, rawVars, configVars, hbVars, calVars, nestVars, lifeVars, timedVars, serverVars>>

(***************************************************************************)
(* Dictionaries are functions on their key set.                            *)
(***************************************************************************)
DictPop(d, k) == [x \in (DOMAIN d) \ {k} |-> d[x]]

DictSet(d, k, v) == [x \in (DOMAIN d) \cup {k} |-> IF x = k THEN v ELSE d[x]]

DictPopAll(d, ks) == [x \in (DOMAIN d) \ ks |-> d[x]]

EmptyDict == [x \in {} |-> 0]

(***************************************************************************)
(* Correlation Store                                                       *)
(***************************************************************************)
\* The state after the modules are loaded and before main() has run a task.
Init ==
    /\ response_dict = EmptyDict
    /\ response_time_dict = EmptyDict
    /\ now = 0
    /\ putCount = 0
    /\ wpc = [w \in Waiters |-> "idle"]
    /\ wreq = [w \in Waiters |-> 1]
    /\ wretry = [w \in Waiters |-> 0]
    /\ wres = [w \in Waiters |-> NoResponse]
    /\ sweepAt = -1
    /\ cleaned_message_count = 0
    /\ putSinceSweep = FALSE
    /\ sweepClean = FALSE
    /\ warning_log = 0
    /\ conn = "open"
    /\ recvd = <<>>
    /\ message_queue = <<>>
    /\ handled = <<>>
    /\ cpc = "get"
    /\ debug_log = 0
    /\ message_list = <<>>
    /\ handled_message = [type |-> "None", data |-> "", kids |-> <<>>]
    /\ image_count = 0
    /\ forward_result = [status |-> "none",
                         value |-> [type |-> "None", data |-> "", kids |-> <<>>]]
    /\ message_segment = [type |-> "seglist", data |-> "", kids |-> <<>>]
    /\ processed_message = <<>>
    /\ send_pc = "build"
    /\ sent_action = ""
    /\ sent_echoes = <<>>
    /\ send_end = ""
    /\ route_config = [p \in Platforms |-> 1]
    /\ router_running = FALSE
    /\ clients = EmptyDict
    /\ client_tasks = EmptyDict
    /\ mon_pc = "off"
    /\ mon_todo = <<>>
    /\ reachable = [p \in Platforms \cup ConfigPlatforms |-> FALSE]
    /\ failedThrice = [p \in Platforms \cup ConfigPlatforms |-> FALSE]
    /\ last_send = ""
    /\ raw_message = RawEvent("group", "none", FALSE, <<>>)
    /\ raw_pc = "idle"
    /\ submitted = <<>>
    /\ raw_lookups = 0
    /\ upd_pc = "idle"
    /\ upd_new = [p \in Platforms |-> 1]
    /\ upd_old = [p \in Platforms |-> 1]
    /\ upd_remove = <<>>
    /\ upd_add = <<>>
    /\ upd_count = 0
    /\ hb_time = 0
    /\ last_heart_beat = -1
    /\ interval = napcat_heartbeat_interval
    /\ watchdog = [i \in Watchdogs |-> [pc |-> "none", wake |-> 0]]
    /\ lifecycles = 0
    /\ events = <<>>
    /\ cal_time = 0
    /\ cal_added = 0
    /\ cal_result = [status |-> "", kind |-> ""]
    /\ lookup_at = 0
    /\ orphan_tasks = <<>>
    /\ rm_platform = 0
    /\ stop_pc = "idle"
    /\ sweep_window = -1
    /\ wdue = [w \in Waiters |-> 0]
    /\ ws_platform = <<>>
    /\ endpoints = {}
    /\ active_websockets = {}
    /\ platform_websockets = EmptyDict
    /\ last_broadcast = ""

\* time.time() advances.
Tick ==
    /\ now < MaxTime
    /\ now' = now + 1
    /\ UNCHANGED <<response_dict, response_time_dict, putCount, wpc, wreq, wretry, wres,
                   sweepAt, cleaned_message_count, putSinceSweep, sweepClean, warning_log>>

\* A caller sends its request and calls get_response(request_id): retry_count = 0.
IssueRequest(w, t) ==
    /\ wpc[w] = "idle"
    /\ wpc' = [wpc EXCEPT ![w] = "poll"]
    /\ wreq' = [wreq EXCEPT ![w] = t]
    /\ wretry' = [wretry EXCEPT ![w] = 0]
    /\ UNCHANGED <<response_dict, response_time_dict, now, putCount, wres,
                   sweepAt, cleaned_message_count, putSinceSweep, sweepClean, warning_log>>

\* get_response, line 16: retry_count += 1.
NextRetryStuck(rc) == rc

NextRetry(rc) == rc + 1

\* get_response, line 17: the poll gives up.
RetriesExhausted(rc) == rc >= max_retries

\* get_response, lines 20-21: the dictionaries after the claim of request_id.
ClaimKeepsEntry(d, request_id) == d

Claim(d, request_id) == DictPop(d, request_id)

\* get_response, line 18: the raise leaves a dictionary as it is.
AfterTimeoutCleared(d) == EmptyDict

AfterTimeout(d) == d

\* One turn of the loop of get_response, from a wake-up to the next await (or
\* to the return or the raise).
get_response(w) ==
    /\ wpc[w] = "poll"
    /\ IF wreq[w] \in DOMAIN response_dict
          THEN /\ wres' = [wres EXCEPT ![w] = response_dict[wreq[w]]]
               /\ response_dict' = Claim(response_dict, wreq[w])
               /\ response_time_dict' = Claim(response_time_dict, wreq[w])
               /\ wpc' = [wpc EXCEPT ![w] = "returned"]
               /\ UNCHANGED wretry
          ELSE /\ wretry' = [wretry EXCEPT ![w] = NextRetry(@)]
               /\ wpc' = [wpc EXCEPT ![w] =
                             IF RetriesExhausted(NextRetry(wretry[w])) THEN "timeout"
                                                                       ELSE "poll"]
               /\ response_dict' = IF RetriesExhausted(NextRetry(wretry[w]))
                                       THEN AfterTimeout(response_dict) ELSE response_dict
               /\ response_time_dict' = IF RetriesExhausted(NextRetry(wretry[w]))
                                            THEN AfterTimeout(response_time_dict)
                                            ELSE response_time_dict
               /\ UNCHANGED wres
    /\ UNCHANGED <<now, putCount, wreq, sweepAt, cleaned_message_count, putSinceSweep, sweepClean, warning_log>>

\* put_response, line 29: the time of arrival is stored under the token.
StampSkipped(times, echo_id, now_time) == times

Stamp(times, echo_id, now_time) == DictSet(times, echo_id, now_time)

\* put_response(response) for a response whose "echo" is t; the serial number
\* tells the responses of one token apart.
put_response(t) ==
    /\ putCount < MaxPuts
    /\ putCount' = putCount + 1
    /\ response_dict' = DictSet(response_dict, t, [echo |-> t, serial |-> putCount + 1])
    /\ response_time_dict' = Stamp(response_time_dict, t, now)
    /\ putSinceSweep' = TRUE
    /\ UNCHANGED <<now, wpc, wreq, wretry, wres, sweepAt, cleaned_message_count,
                   sweepClean, warning_log>>

\* check_timeout_response, lines 36-37: the entries a pass at now_time removes.
TimedOutOneOnly(times, now_time) ==
    LET all == {t \in DOMAIN times : now_time - times[t] > napcat_heartbeat_interval}
    IN  IF all = {} THEN {} ELSE {CHOOSE t \in all : \A u \in all : t <= u}

TimedOut(times, now_time) ==
    {t \in DOMAIN times : now_time - times[t] > napcat_heartbeat_interval}

\* check_timeout_response, line 43: the sleep between two passes has ended.
SweepAwakeOnce == sweepAt < 0

SweepAwake == sweepAt < 0 \/ now >= sweepAt + napcat_heartbeat_interval

\* One pass of check_timeout_response, followed by its sleep.
check_timeout_response ==
    /\ SweepAwake
    /\ LET gone == TimedOut(response_time_dict, now)
       IN  /\ response_dict' = DictPopAll(response_dict, gone)
           /\ response_time_dict' = DictPopAll(response_time_dict, gone)
           /\ cleaned_message_count' = Cardinality(gone)
           /\ warning_log' = warning_log + Cardinality(gone)
    /\ sweepClean' = (sweepAt >= 0 /\ ~putSinceSweep)
    /\ sweepAt' = now
    /\ putSinceSweep' = FALSE
    /\ UNCHANGED <<now, putCount, wpc, wreq, wretry, wres>>

(***************************************************************************)
(* Inbound Classifier                                                      *)
(***************************************************************************)
\* What "post_type" is in a frame: the three queued categories, "none" for a
\* frame without the field (a response), "request" for a category the adapter
\* does not know, and "malformed" for a frame json.loads cannot decode.
PostTypes == {"message", "meta_event", "notice", "none", "request", "malformed"}

Queued == {"message", "meta_event", "notice"}

\* message_recv, lines 20-27: the branch a decoded frame takes.
RouteNoticeDropped(post_type) ==
    CASE post_type \in {"message", "meta_event"} -> "queue"
      [] post_type = "none" -> "store"
      [] OTHER -> "drop"

Route(post_type) ==
    CASE post_type \in {"meta_event", "message", "notice"} -> "queue"
      [] post_type = "none" -> "store"
      [] OTHER -> "drop"

\* message_recv, line 18: json.loads raises on a frame that is not JSON, and the
\* exception leaves the handler, which ends the connection.
DecodeFailureIgnored(post_type) == FALSE

DecodeFails(post_type) == post_type = "malformed"

\* One turn of the loop of message_recv: a frame is read, logged, decoded and
\* classified.  echo is the token of a response frame.
message_recv(post_type, echo) ==
    /\ conn = "open"
    /\ Len(recvd) < MaxFrames
    /\ LET frame == [id |-> Len(recvd) + 1, post_type |-> post_type,
                     echo |-> IF post_type = "none" THEN echo ELSE 0]
       IN  /\ recvd' = Append(recvd, frame)
           /\ debug_log' = debug_log + 1
           /\ IF DecodeFails(post_type)
                 THEN /\ conn' = "closed"
                      /\ UNCHANGED <<message_queue, storeVars>>
                 ELSE /\ conn' = conn
                      /\ CASE Route(post_type) = "queue" ->
                                 /\ message_queue' = Append(message_queue, frame)
                                 /\ UNCHANGED storeVars
                            [] Route(post_type) = "store" ->
                                 /\ put_response(frame.echo)
                                 /\ UNCHANGED message_queue
                            [] OTHER ->
                                 UNCHANGED <<message_queue, storeVars>>
    /\ UNCHANGED <<handled, cpc, fwdVars, sendVars, routerVars, rawVars, configVars, hbVars, calVars, nestVars, lifeVars, timedVars, serverVars>>

\* The gateway connects again after its connection has ended: Server.serve
\* starts a new message_recv.
Reconnect ==
    /\ conn = "closed"
    /\ conn' = "open"
    /\ UNCHANGED <<recvd, message_queue, handled, cpc, debug_log, storeVars, fwdVars, sendVars, routerVars, rawVars, configVars, hbVars, calVars, nestVars, lifeVars, timedVars, serverVars>>

\* message_process, line 32: the frame message_queue.get() returns.
QueueGetLast(q) == q[Len(q)]

QueueGet(q) == Head(q)

QueueRest(q) == Tail(q)

\* message_process, lines 32-39: a frame is taken and its handler is entered.
message_process ==
    /\ cpc = "get"
    /\ message_queue # <<>>
    /\ handled' = Append(handled, QueueGet(message_queue))
    /\ message_queue' = QueueRest(message_queue)
    /\ cpc' = "handling"
    /\ UNCHANGED <<conn, recvd, debug_log, storeVars, fwdVars, sendVars, routerVars, rawVars, configVars, hbVars, calVars, nestVars, lifeVars, timedVars, serverVars>>

\* The handler returns: task_done(), then the sleep of line 43.
HandlerReturns ==
    /\ cpc = "handling"
    /\ cpc' = "sleep"
    /\ UNCHANGED <<conn, recvd, message_queue, handled, debug_log, storeVars, fwdVars, sendVars, routerVars, rawVars, configVars, hbVars, calVars, nestVars, lifeVars, timedVars, serverVars>>

\* The handler raises: nothing in message_process catches it, the task ends.
HandlerRaises ==
    /\ cpc = "handling"
    /\ cpc' = "dead"
    /\ UNCHANGED <<conn, recvd, message_queue, handled, debug_log, storeVars, fwdVars, sendVars, routerVars, rawVars, configVars, hbVars, calVars, nestVars, lifeVars, timedVars, serverVars>>

\* The sleep of line 43 ends.
ProcessSleepEnds ==
    /\ cpc = "sleep"
    /\ cpc' = "get"
    /\ UNCHANGED <<conn, recvd, message_queue, handled, debug_log, storeVars, fwdVars, sendVars, routerVars, rawVars, configVars, hbVars, calVars, nestVars, lifeVars, timedVars, serverVars>>

NextRecv ==
    \/ \E pt \in PostTypes, t \in Tokens : message_recv(pt, t)
    \/ Reconnect
    \/ message_process
    \/ HandlerReturns
    \/ HandlerRaises
    \/ ProcessSleepEnds

SpecRecv == Init /\ [][NextRecv]_vars

(***************************************************************************)
(* Forward expansion                                                       *)
(*                                                                         *)
(* A Python value that a Seg tree can hold is a record of a type, a scalar *)
(* payload and a list of children: a Seg of type seglist has children and  *)
(* no payload, every other Seg a payload and no children.  Two values that *)
(* the code puts where a Seg belongs are not Segs: None, and the tuple     *)
(* (Seg, 0) of recv_handler.py lines 627-633.                              *)
(***************************************************************************)
Seg(type, data) == [type |-> type, data |-> data, kids |-> <<>>]

SegList(kids) == [type |-> "seglist", data |-> "", kids |-> kids]

NoneValue == [type |-> "None", data |-> "", kids |-> <<>>]

TupleValue(seg) == [type |-> "tuple", data |-> "", kids |-> <<seg>>]

\* The exception that leaves a function, as a value.
Raised == [type |-> "raised", data |-> "AttributeError", kids |-> <<>>]

\* A sub-message of a forward: the first element of its "message" and what the
\* code reads of its data.  url "bad" is an address whose download fails.
SubMessage(type, sub_type, url, content) ==
    [type |-> type, sub_type |-> sub_type, url |-> url, content |-> content]

LeafSubMessages ==
    {SubMessage("text", 0, "", <<>>), SubMessage("face", 0, "", <<>>),
     SubMessage("image", 0, "ok", <<>>), SubMessage("image", 1, "ok", <<>>),
     SubMessage("image", 0, "bad", <<>>)}

RECURSIVE NodeCount(_)
NodeCount(list) ==
    IF list = <<>> THEN 0
    ELSE 1 + NodeCount(Head(list).content) + NodeCount(Tail(list))

RECURSIVE Dashes(_)
Dashes(layer) == IF layer = 0 THEN "" ELSE "--" \o Dashes(layer - 1)

\* _handle_forward_message, line 626: the nesting is not expanded further.
TooDeep(layer) == layer >= 3

\* _handle_forward_message: the pair (seg_data, image_count) it returns for
\* message_list at layer; ForwardItems is its loop from the i-th sub-message on,
\* giving the segments appended to seg_list and the images counted.
RECURSIVE inner_handle_forward_message(_, _), ForwardItems(_, _, _)
ForwardItems(list, i, layer) ==
    IF i > Len(list) THEN [segs |-> <<>>, count |-> 0]
    ELSE LET sub == list[i]
             user_nickname_str == "[nickname]:"
             break_seg == Seg("text", "\n")
             rest == ForwardItems(list, i + 1, layer)
         IN  CASE sub.type = "forward" ->
                    IF TooDeep(layer)
                       THEN [segs |-> <<TupleValue(Seg("text",
                                           Dashes(layer) \o "[nickname]:[forward]\n"))>>
                                         \o rest.segs,
                             count |-> rest.count]
                       ELSE LET sub_result == inner_handle_forward_message(sub.content,
                                                                            layer + 1)
                                head_tip == Seg("text",
                                                Dashes(layer) \o "[nickname]: forward:\n")
                            IN  [segs |-> <<SegList(<<head_tip, sub_result.seg>>)>>
                                            \o rest.segs,
                                 count |-> sub_result.count + rest.count]
               [] sub.type = "text" ->
                    [segs |-> <<SegList(<<Seg("text", Dashes(layer) \o user_nickname_str),
                                          Seg("text", "text"), break_seg>>)>> \o rest.segs,
                     count |-> rest.count]
               [] sub.type = "image" ->
                    LET seg_data == IF sub.sub_type = 0 THEN Seg("image", sub.url)
                                                        ELSE Seg("emoji", sub.url)
                    IN  [segs |-> <<SegList(<<Seg("text", Dashes(layer) \o user_nickname_str),
                                              seg_data, break_seg>>)>> \o rest.segs,
                         count |-> 1 + rest.count]
               [] OTHER -> rest

inner_handle_forward_message(list, layer) ==
    IF Len(list) = 0
       THEN [seg |-> NoneValue, count |-> 0]
       ELSE LET items == ForwardItems(list, 1, layer)
            IN  [seg |-> SegList(items.segs), count |-> items.count]

\* get_image_base64: the download of url, which raises for a bad address.
FetchFails(url) == url = "bad"

\* _recursive_parse_image_seg: the value it returns, or Raised when reading
\* .type of a value that is not a Seg raises.
RECURSIVE recursive_parse_image_seg(_, _), ParseList(_, _, _)
ParseList(kids, i, to_image) ==
    IF i > Len(kids) THEN <<>>
    ELSE LET parsed_seg == recursive_parse_image_seg(kids[i], to_image)
         IN  IF parsed_seg = Raised THEN <<Raised>>
             ELSE <<parsed_seg>> \o ParseList(kids, i + 1, to_image)

recursive_parse_image_seg(seg_data, to_image) ==
    CASE seg_data.type \in {"None", "tuple"} -> Raised
      [] seg_data.type = "seglist" ->
           LET new_seg_list == ParseList(seg_data.kids, 1, to_image)
           IN  IF new_seg_list # <<>> /\ new_seg_list[Len(new_seg_list)] = Raised
                  THEN Raised
                  ELSE SegList(new_seg_list)
      [] seg_data.type = "image" ->
           IF to_image
              THEN IF FetchFails(seg_data.data) THEN Seg("text", "[image]")
                                                ELSE Seg("image", "base64")
              ELSE Seg("text", "<image>")
      [] seg_data.type = "emoji" ->
           IF to_image
              THEN IF FetchFails(seg_data.data) THEN Seg("text", "[emoji]")
                                                ELSE Seg("emoji", "base64")
              ELSE Seg("text", "<emoji>")
      [] OTHER -> seg_data

\* handle_forward_message, lines 548-560, on the pair of line 545.
ForwardOutcome(seg, count) ==
    LET returned(v) == [status |-> IF v = Raised THEN "raised" ELSE "returned",
                        value |-> v]
    IN  IF seg = NoneValue THEN returned(NoneValue)
        ELSE IF count < 5 /\ count > 0
                THEN returned(recursive_parse_image_seg(seg, TRUE))
        ELSE IF count > 0
                THEN returned(recursive_parse_image_seg(seg, FALSE))
        ELSE returned(seg)

\* The gateway's forward grows by one sub-message.
AddSubMessage(sub) ==
    /\ forward_result.status = "none"
    /\ NodeCount(message_list) < MaxNodes
    /\ message_list' = Append(message_list, sub)
    /\ UNCHANGED <<handled_message, image_count, forward_result, storeVars, recvVars, sendVars, routerVars, rawVars, configVars, hbVars, calVars, nestVars, lifeVars, timedVars, serverVars>>

\* The gateway's forward is itself forwarded: its sub-messages become the
\* content of the one sub-message of a new forward.
NestForward ==
    /\ forward_result.status = "none"
    /\ NodeCount(message_list) < MaxNodes
    /\ message_list' = <<SubMessage("forward", 0, "", message_list)>>
    /\ UNCHANGED <<handled_message, image_count, forward_result, storeVars, recvVars, sendVars, routerVars, rawVars, configVars, hbVars, calVars, nestVars, lifeVars, timedVars, serverVars>>

\* handle_forward_message(message_list).
handle_forward_message ==
    /\ forward_result.status = "none"
    /\ LET pair == inner_handle_forward_message(message_list, 0)
       IN  /\ handled_message' = pair.seg
           /\ image_count' = pair.count
           /\ forward_result' = ForwardOutcome(pair.seg, pair.count)
    /\ UNCHANGED <<message_list, storeVars, recvVars, sendVars, routerVars, rawVars, configVars, hbVars, calVars, nestVars, lifeVars, timedVars, serverVars>>

NextForward ==
    \/ \E sub \in LeafSubMessages : AddSubMessage(sub)
    \/ NestForward
    \/ handle_forward_message

SpecForward == Init /\ [][NextForward]_vars

(***************************************************************************)
(* Outbound flatten                                                        *)
(***************************************************************************)
\* An element of the gateway payload: handle_reply_message,
\* handle_text_message, handle_image_message and handle_emoji_message.
Element(type, data, subtype) == [type |-> type, data |-> data, subtype |-> subtype]

\* handle_emoji_message, lines 137-139: an emoji that is not a GIF is converted.
ToGif(image_format) == "gif"

\* build_payload: a reply goes in front of the payload, anything else behind.
BuildPayloadReplyLast(payload, addon, is_reply) == Append(payload, addon)

build_payload(payload, addon, is_reply) ==
    IF is_reply THEN <<addon>> \o payload ELSE Append(payload, addon)

\* process_message_by_type: the payload after seg.
process_message_by_type(seg, payload) ==
    CASE seg.type = "reply" ->
           IF seg.data = "notice" THEN <<>>
           ELSE build_payload(payload, Element("reply", seg.data, 0), TRUE)
      [] seg.type = "text" -> build_payload(payload, Element("text", seg.data, 0), FALSE)
      [] seg.type = "face" -> payload
      [] seg.type = "image" -> build_payload(payload, Element("image", seg.data, 0), FALSE)
      [] seg.type = "emoji" ->
           build_payload(payload, Element("image", ToGif(seg.data), 1), FALSE)
      [] OTHER -> payload

\* handle_seg_recursive: the loop of lines 80-81 from the i-th child on.
RECURSIVE ProcessKids(_, _, _)
ProcessKids(kids, i, payload) ==
    IF i > Len(kids) THEN payload
    ELSE ProcessKids(kids, i + 1, process_message_by_type(kids[i], payload))

handle_seg_recursive(seg_data) ==
    IF seg_data.type = "seglist" THEN ProcessKids(seg_data.kids, 1, <<>>)
    ELSE process_message_by_type(seg_data, <<>>)

\* The leaves MaiBot puts into a message; the payload of an emoji is its image
\* format, "notice" is the reply target of a notice.
OutboundLeaves ==
    {Seg("text", "text"), Seg("image", "base64"), Seg("emoji", "png"), Seg("face", "1"),
     Seg("reply", "msg_id"), Seg("reply", "notice")}

RECURSIVE SegCount(_), SegCountOf(_)
SegCountOf(kids) == IF kids = <<>> THEN 0 ELSE SegCount(Head(kids)) + SegCountOf(Tail(kids))

SegCount(seg) == 1 + SegCountOf(seg.kids)

\* MaiBot builds its message: a leaf is added to the root seglist.
AppendSeg(leaf) ==
    /\ send_pc = "build"
    /\ message_segment.type = "seglist"
    /\ SegCount(message_segment) <= MaxSegs
    /\ message_segment' = SegList(Append(message_segment.kids, leaf))
    /\ UNCHANGED <<processed_message, send_pc, sent_action, sent_echoes, send_end, storeVars, recvVars, fwdVars, routerVars, rawVars, configVars, hbVars, calVars, nestVars, lifeVars, timedVars, serverVars>>

\* MaiBot builds its message: the tree so far becomes the first child of a new
\* root seglist.
NestSeg ==
    /\ send_pc = "build"
    /\ message_segment.kids # <<>>
    /\ SegCount(message_segment) <= MaxSegs
    /\ message_segment' = SegList(<<message_segment>>)
    /\ UNCHANGED <<processed_message, send_pc, sent_action, sent_echoes, send_end, storeVars, recvVars, fwdVars, routerVars, rawVars, configVars, hbVars, calVars, nestVars, lifeVars, timedVars, serverVars>>

\* MaiBot builds its message: the message is one leaf, not a seglist.
SingleSeg(leaf) ==
    /\ send_pc = "build"
    /\ message_segment = SegList(<<>>)
    /\ message_segment' = leaf
    /\ UNCHANGED <<processed_message, send_pc, sent_action, sent_echoes, send_end, storeVars, recvVars, fwdVars, routerVars, rawVars, configVars, hbVars, calVars, nestVars, lifeVars, timedVars, serverVars>>

\* send_message_to_napcat, line 150: request_uuid = str(uuid.uuid4()), a token
\* no earlier request has.
uuid4(echoes) == Len(echoes) + 1

\* send_message_to_napcat, lines 150-152: the request goes out on the socket.
SocketSend(echoes) == Append(echoes, uuid4(echoes))

\* handle_seg, to the send of send_message_to_napcat: the tree is flattened and,
\* if the payload is not empty, one action is sent, chosen by the addressing of
\* the message (group_info and user_info).
handle_seg(has_group, has_user) ==
    /\ send_pc = "build"
    /\ LET payload == handle_seg_recursive(message_segment)
       IN  /\ processed_message' = payload
           /\ IF payload = <<>>
                 THEN send_pc' = "nothing" /\ sent_action' = ""
                 ELSE IF has_group /\ has_user
                         THEN send_pc' = "sent" /\ sent_action' = "send_group_msg"
                 ELSE IF has_user
                         THEN send_pc' = "sent" /\ sent_action' = "send_private_msg"
                 ELSE send_pc' = "unknown" /\ sent_action' = ""
           /\ sent_echoes' = IF send_pc' = "sent" THEN SocketSend(sent_echoes)
                                                  ELSE sent_echoes
    /\ UNCHANGED <<message_segment, send_end, storeVars, recvVars, fwdVars, routerVars, rawVars, configVars, hbVars, calVars, nestVars, lifeVars, timedVars, serverVars>>

\* handle_seg, lines 62-65: what is sent after the awaited response, by its
\* status: the outcome is logged and nothing more is sent.
AfterResponseRetried(status, echoes) ==
    IF status = "ok" THEN echoes ELSE SocketSend(echoes)

AfterResponse(status, echoes) == echoes

\* send_message_to_napcat from its await on, and the end of handle_seg: the
\* response has status "ok" or another one ("failed"), or get_response raises
\* TimeoutError and the status is "error" ("timeout").
SendCompletes(status) ==
    /\ send_pc = "sent"
    /\ send_end = ""
    /\ send_end' = status
    /\ sent_echoes' = AfterResponse(status, sent_echoes)
    /\ UNCHANGED <<message_segment, processed_message, send_pc, sent_action, storeVars, recvVars, fwdVars, routerVars, rawVars, configVars, hbVars, calVars, nestVars, lifeVars, timedVars, serverVars>>

NextSend ==
    \/ \E leaf \in OutboundLeaves : AppendSeg(leaf)
    \/ NestSeg
    \/ \E leaf \in OutboundLeaves : SingleSeg(leaf)
    \/ \E has_group, has_user \in BOOLEAN : handle_seg(has_group, has_user)
    \/ \E status \in {"ok", "failed", "timeout"} : SendCompletes(status)

SpecSend == Init /\ [][NextSend]_vars

(***************************************************************************)
(* Inbound message events: handle_raw_message and handle_real_message.     *)
(***************************************************************************)
RawMessageTypes == {"private", "group"}

RawSubTypes == {"none", "normal", "friend", "group", "anonymous"}

\* The elements of the "message" list of an event, by the fields the code
\* reads of each: the text of a text element; sub_type and url of an image
\* (url "bad" is an address whose download fails); for a forward, whether the
\* get_forward_msg lookup got its response and the "messages" of the response;
\* for a reply, whether the get_msg lookup got its response and the "message"
\* list of the quoted message.
TextElements ==
    {[type |-> "text", text |-> "hi"], [type |-> "text", text |-> "yo"]}

ImageElements ==
    {[type |-> "image", sub_type |-> 0, url |-> "ok"],
     [type |-> "image", sub_type |-> 1, url |-> "ok"],
     [type |-> "image", sub_type |-> 0, url |-> "bad"]}

ForwardElements ==
    {[type |-> "forward", fetched |-> FALSE, messages |-> <<>>],
     [type |-> "forward", fetched |-> TRUE, messages |-> <<>>],
     [type |-> "forward", fetched |-> TRUE, messages |-> <<SubMessage("text", 0, "", <<>>)>>]}

ReplyElement(fetched, quoted) == [type |-> "reply", fetched |-> fetched, quoted |-> quoted]

\* The message lists of quoted messages: empty, a text, an element that
\* gives no segment, a message that quotes another one in turn (a chain, and
\* unrolled a cycle), and a forward whose lookup times out.
QuotedMessages ==
    {<<>>,
     <<[type |-> "text", text |-> "yo"]>>,
     <<[type |-> "face", text |-> ""]>>,
     <<ReplyElement(TRUE, <<ReplyElement(TRUE, <<[type |-> "text", text |-> "hi"]>>)>>),
       [type |-> "text", text |-> "yo"]>>,
     <<[type |-> "forward", fetched |-> FALSE, messages |-> <<>>]>>}

ReplyElements ==
    {ReplyElement(FALSE, <<>>)} \cup {ReplyElement(TRUE, q) : q \in QuotedMessages}

RawSubMessages ==
    TextElements \cup {[type |-> "face", text |-> ""], [type |-> "record", text |-> ""]}
        \cup ImageElements \cup ForwardElements \cup ReplyElements

\* handle_text_message: the text segment of a text element.
HandleTextDropsIt(sub_message) == NoneValue

handle_text_message(sub_message) == Seg("text", sub_message.text)

\* handle_image_message: the segment of an image element, None when the
\* download raises (lines 342-346).
handle_image_message(sub_message) ==
    IF FetchFails(sub_message.url) THEN NoneValue
    ELSE IF sub_message.sub_type = 0 THEN Seg("image", "base64")
    ELSE Seg("emoji", "base64")

\* What one element or one loop gives: the segments for seg_message, how it
\* ended ("ok"; "none" when handle_real_message returns None at once; "raised"
\* when an exception leaves it), and the get_msg requests it sent.
Outcome(segs, st, get_msg) == [segs |-> segs, st |-> st, get_msg |-> get_msg]

\* handle_real_message, the loop of lines 216-309 from the i-th element on,
\* and handle_reply_message.
RECURSIVE RealItems(_, _, _), handle_reply_message(_), ElementOutcome(_, _)
handle_reply_message(sub_message) ==
    IF ~sub_message.fetched
       THEN Outcome(<<>>, "none", 1)
       ELSE LET quoted == IF Len(sub_message.quoted) = 0
                             THEN Outcome(<<>>, "none", 0)
                             ELSE RealItems(sub_message.quoted, 1, TRUE)
            IN  IF quoted.st # "ok"
                   THEN Outcome(<<>>, "raised", 1 + quoted.get_msg)
                   ELSE Outcome(<<Seg("text", "[reply nickname(id):")>> \o quoted.segs
                                    \o <<Seg("text", "], said:")>>,
                                "ok", 1 + quoted.get_msg)

ElementOutcome(sub_message, in_reply) ==
    CASE sub_message.type = "text" ->
           LET ret_seg == handle_text_message(sub_message)
           IN  Outcome(IF ret_seg # NoneValue THEN <<ret_seg>> ELSE <<>>, "ok", 0)
      [] sub_message.type = "reply" ->
           IF in_reply THEN Outcome(<<>>, "ok", 0)
           ELSE LET ret_seg == handle_reply_message(sub_message)
                IN  IF ret_seg.st = "none" THEN Outcome(<<>>, "ok", ret_seg.get_msg)
                    ELSE ret_seg
      [] sub_message.type = "image" ->
           LET ret_seg == handle_image_message(sub_message)
           IN  Outcome(IF ret_seg # NoneValue THEN <<ret_seg>> ELSE <<>>, "ok", 0)
      [] sub_message.type = "forward" ->
           IF ~sub_message.fetched THEN Outcome(<<>>, "none", 0)
           ELSE LET pair == inner_handle_forward_message(sub_message.messages, 0)
                    ret_seg == ForwardOutcome(pair.seg, pair.count)
                IN  IF ret_seg.status = "raised" THEN Outcome(<<>>, "raised", 0)
                    ELSE IF ret_seg.value = NoneValue THEN Outcome(<<>>, "ok", 0)
                    ELSE Outcome(<<ret_seg.value>>, "ok", 0)
      [] OTHER -> Outcome(<<>>, "ok", 0)

RealItems(real_message, i, in_reply) ==
    IF i > Len(real_message) THEN Outcome(<<>>, "ok", 0)
    ELSE LET one == ElementOutcome(real_message[i], in_reply)
         IN  IF one.st # "ok" THEN one
             ELSE LET rest == RealItems(real_message, i + 1, in_reply)
                  IN  Outcome(IF rest.st = "ok" THEN one.segs \o rest.segs ELSE <<>>,
                              rest.st, one.get_msg + rest.get_msg)

\* handle_real_message: the list it returns (NoneValue for Python's None,
\* Raised for an exception) and the get_msg requests it sent.
handle_real_message(real_message, in_reply) ==
    IF Len(real_message) = 0 THEN [value |-> NoneValue, get_msg |-> 0]
    ELSE LET items == RealItems(real_message, 1, in_reply)
         IN  [value |-> CASE items.st = "ok" -> SegList(items.segs)
                          [] items.st = "none" -> NoneValue
                          [] OTHER -> Raised,
              get_msg |-> items.get_msg]

\* handle_raw_message, lines 81-167: what the branch on message_type and
\* sub_type ends in: "build" goes on to line 170, "unsupported" returns after
\* a warning, "raised" is an exception (no sender to read, or user_info never
\* bound).
SenderBranch(message_type, sub_type, sender) ==
    LET read_sender == IF sender THEN "build" ELSE "raised"
    IN  CASE message_type = "private" ->
               IF sub_type = "friend" THEN read_sender ELSE "unsupported"
          [] message_type = "group" ->
               IF sub_type = "normal" THEN read_sender ELSE "unsupported"
          [] OTHER -> "raised"

\* The gateway sends an event of some kind.
ChooseEvent(message_type, sub_type, sender) ==
    /\ raw_pc = "idle"
    /\ raw_message.message = <<>>
    /\ raw_message' = RawEvent(message_type, sub_type, sender, <<>>)
    /\ raw_message' # raw_message
    /\ UNCHANGED <<raw_pc, submitted, raw_lookups, storeVars, recvVars, fwdVars, sendVars, routerVars, configVars, hbVars, calVars, nestVars, lifeVars, timedVars, serverVars>>

\* The event has one more element in its message list.
AppendRawSeg(sub_message) ==
    /\ raw_pc = "idle"
    /\ Len(raw_message.message) < MaxRawSegs
    /\ raw_message' = [raw_message EXCEPT !.message = Append(@, sub_message)]
    /\ UNCHANGED <<raw_pc, submitted, raw_lookups, storeVars, recvVars, fwdVars, sendVars, routerVars, configVars, hbVars, calVars, nestVars, lifeVars, timedVars, serverVars>>

\* handle_raw_message on the event; fetched tells whether get_group_info got
\* its answer before the timeout.
handle_raw_message(fetched) ==
    /\ raw_pc = "idle"
    /\ LET branch == SenderBranch(raw_message.message_type, raw_message.sub_type,
                                  raw_message.sender)
           real == handle_real_message(raw_message.message, FALSE)
           seg_message == real.value
       IN  IF branch # "build"
              THEN raw_pc' = branch /\ raw_lookups' = 0 /\ UNCHANGED submitted
           ELSE IF raw_message.message = <<>>
              THEN raw_pc' = "empty" /\ raw_lookups' = 0 /\ UNCHANGED submitted
           ELSE IF seg_message = Raised
              THEN raw_pc' = "raised" /\ raw_lookups' = real.get_msg /\ UNCHANGED submitted
           ELSE IF seg_message = NoneValue \/ seg_message.kids = <<>>
              THEN raw_pc' = "empty" /\ raw_lookups' = real.get_msg /\ UNCHANGED submitted
           ELSE /\ raw_pc' = "submitted"
                /\ raw_lookups' = real.get_msg
                /\ submitted' = Append(submitted,
                       [message_segment |-> seg_message,
                        has_group |-> raw_message.message_type = "group",
                        group_name |-> IF raw_message.message_type = "group" /\ fetched
                                          THEN "name" ELSE "None"])
    /\ UNCHANGED <<raw_message, storeVars, recvVars, fwdVars, sendVars, routerVars, configVars, hbVars, calVars, nestVars, lifeVars, timedVars, serverVars>>

NextRaw ==
    \/ \E mt \in RawMessageTypes, st \in RawSubTypes, sender \in BOOLEAN :
          ChooseEvent(mt, st, sender)
    \/ \E sub \in RawSubMessages : AppendRawSeg(sub)
    \/ \E fetched \in BOOLEAN : handle_raw_message(fetched)

SpecRaw == Init /\ [][NextRaw]_vars

(***************************************************************************)
(* Heartbeat Monitor                                                       *)
(***************************************************************************)
hbOthers == <<storeVars, recvVars, fwdVars, sendVars, routerVars, rawVars, configVars, calVars, nestVars, lifeVars, timedVars, serverVars>>

\* The intervals a heartbeat event can announce, in seconds.
HeartbeatIntervals == {napcat_heartbeat_interval, napcat_heartbeat_interval + 1}

\* time.time() advances.
HbTick ==
    /\ hb_time < MaxHbTime
    /\ hb_time' = hb_time + 1
    /\ UNCHANGED <<last_heart_beat, interval, watchdog, lifecycles, hbOthers>>

\* handle_meta_event, lines 42-48: a lifecycle connect event sets
\* last_heart_beat and creates a check_heartbeat task.
LifecycleConnect ==
    /\ lifecycles < MaxLifecycles
    /\ lifecycles' = lifecycles + 1
    /\ last_heart_beat' = hb_time
    /\ watchdog' = [watchdog EXCEPT ![lifecycles + 1] = [pc |-> "watching", wake |-> hb_time]]
    /\ UNCHANGED <<hb_time, interval, hbOthers>>

\* handle_meta_event, lines 49-55: a heartbeat event; ok is status.online and
\* status.good, announced is its interval in seconds.
HeartbeatEvent(ok, announced) ==
    /\ IF ok
          THEN /\ last_heart_beat' = hb_time
               /\ interval' = announced
          ELSE UNCHANGED <<last_heart_beat, interval>>
    /\ UNCHANGED <<hb_time, watchdog, lifecycles, hbOthers>>

\* check_heartbeat, line 60: the connection has been silent for too long.
HeartbeatLostAtOnce(now_time) == TRUE

HeartbeatLost(now_time) == now_time - last_heart_beat > interval + HeartbeatGrace

\* check_heartbeat, lines 58-65: one turn of the loop of task i, from the end
\* of its sleep to its next sleep or to its break.
check_heartbeat(i) ==
    /\ watchdog[i].pc = "watching"
    /\ hb_time >= watchdog[i].wake
    /\ watchdog' = [watchdog EXCEPT ![i] =
                       IF HeartbeatLost(hb_time)
                          THEN [pc |-> "lost", wake |-> @.wake]
                          ELSE [pc |-> "watching", wake |-> hb_time + interval]]
    /\ UNCHANGED <<hb_time, last_heart_beat, interval, lifecycles, hbOthers>>

NextHeartbeat ==
    \/ HbTick
    \/ LifecycleConnect
    \/ \E ok \in BOOLEAN, announced \in HeartbeatIntervals : HeartbeatEvent(ok, announced)
    \/ \E i \in Watchdogs : check_heartbeat(i)

SpecHeartbeat == Init /\ [][NextHeartbeat]_vars

\* The heartbeat code with the clock going on.  The event loop runs a task as
\* soon as its sleep has ended: the clock does not pass a check that is due.
HbTickDue ==
    /\ \A i \in Watchdogs : watchdog[i].pc = "watching" => hb_time < watchdog[i].wake
    /\ HbTick

\* The clock of the model stops at MaxHbTime, so last_heart_beat is refreshed
\* while the silence that follows can still exceed the interval plus the
\* grace, and a check can still follow, before the clock stops.
RoomFor(seconds) == hb_time + 2 * seconds + HeartbeatGrace <= MaxHbTime

NextWatch ==
    \/ HbTickDue
    \/ RoomFor(interval) /\ LifecycleConnect
    \/ \E ok \in BOOLEAN, announced \in HeartbeatIntervals :
          /\ ok => RoomFor(announced)
          /\ HeartbeatEvent(ok, announced)
    \/ \E i \in Watchdogs : check_heartbeat(i)

FairHeartbeat ==
    /\ Init /\ [][NextWatch]_vars
    /\ WF_vars(HbTickDue)
    /\ \A i \in Watchdogs : WF_vars(check_heartbeat(i))

(***************************************************************************)
(* Calendar tool                                                           *)
(***************************************************************************)
calOthers == <<storeVars, recvVars, fwdVars, sendVars, routerVars, rawVars, configVars, hbVars, nestVars, lifeVars, timedVars, serverVars>>

\* The titles of the events added; "" is a call without a title.
Titles == {"", "a", "b"}

\* The ids a remove is called with; -1 is a call without event_id.
EventIds == -1..MaxCalTime

\* _generate_event_id: the id made at a time, evt_<seconds>.
generate_event_id(seconds, serial) == seconds

\* datetime.now() advances by a second.
CalTick ==
    /\ cal_time < MaxCalTime
    /\ cal_time' = cal_time + 1
    /\ UNCHANGED <<events, cal_added, cal_result, calOthers>>

\* _add_event with a title and a well-formed date; serial stands for the
\* rest of the event (created_at), which no two events share.
add_event(title) ==
    /\ cal_added < MaxEvents
    /\ IF title = ""
          THEN /\ cal_result' = [status |-> "error", kind |-> "missing"]
               /\ UNCHANGED <<events, cal_added>>
          ELSE /\ events' = Append(events,
                                [id |-> generate_event_id(cal_time, cal_added + 1),
                                 title |-> title, serial |-> cal_added + 1])
               /\ cal_added' = cal_added + 1
               /\ cal_result' = [status |-> "success", kind |-> "added"]
    /\ UNCHANGED <<cal_time, calOthers>>

\* _remove_event, lines 225-226: the index of the first event with the id, 0
\* if there is none.
FirstWithId(list, event_id) ==
    IF \E i \in 1..Len(list) : list[i].id = event_id
       THEN CHOOSE i \in 1..Len(list) :
               /\ list[i].id = event_id
               /\ \A j \in 1..(i - 1) : list[j].id # event_id
       ELSE 0

\* list.pop(i)
ListPop(list, i) == SubSeq(list, 1, i - 1) \o SubSeq(list, i + 1, Len(list))

\* _remove_event
remove_event(event_id) ==
    /\ IF event_id = -1
          THEN /\ cal_result' = [status |-> "error", kind |-> "missing"]
               /\ UNCHANGED events
          ELSE LET i == FirstWithId(events, event_id)
               IN  IF i = 0
                      THEN /\ cal_result' = [status |-> "error", kind |-> "not_found"]
                           /\ UNCHANGED events
                      ELSE /\ events' = ListPop(events, i)
                           /\ cal_result' = [status |-> "success", kind |-> "removed"]
    /\ UNCHANGED <<cal_time, cal_added, calOthers>>

NextCalendar ==
    \/ CalTick
    \/ \E title \in Titles : add_event(title)
    \/ \E event_id \in EventIds : remove_event(event_id)

SpecCalendar == Init /\ [][NextCalendar]_vars

(***************************************************************************)
(* Connection Router                                                       *)
(***************************************************************************)
otherVars == <<storeVars, recvVars, fwdVars, sendVars, rawVars, configVars, hbVars, calVars, nestVars, lifeVars, timedVars, serverVars>>

\* MessageClient.__init__ followed by MessageClient.connect for a target.
NewClient(target) ==
    [running |-> TRUE, connected |-> FALSE, ws |-> "none", retry_count |-> 0,
     target |-> target]

\* Router.connect(platform), lines 98-104, with table the route_config: a new
\* client, and its run task if the router runs.
RouterConnect(table, cl, tasks, platform, running) ==
    [clients |-> DictSet(cl, platform, NewClient(table[platform])),
     tasks |-> IF running THEN DictSet(tasks, platform, "start") ELSE tasks]

\* Router.get_target_url: the target of the platform, NoTarget for None.
NoTarget == 0

GetTargetUrlDefault(table, platform) ==
    IF platform \in DOMAIN table THEN table[platform] ELSE 1

get_target_url(table, platform) ==
    IF platform \in DOMAIN table THEN table[platform] ELSE NoTarget

\* Router.run, lines 108-116: every configured platform without a client is
\* connected and the monitor task is created.
router_run ==
    /\ ~router_running
    /\ mon_pc = "off"
    /\ router_running' = TRUE
    /\ LET todo == (DOMAIN route_config) \ DOMAIN clients
       IN  /\ clients' = [p \in (DOMAIN clients) \cup todo |->
                             IF p \in todo THEN NewClient(route_config[p]) ELSE clients[p]]
           /\ client_tasks' = [p \in (DOMAIN client_tasks) \cup todo |->
                                  IF p \in todo THEN "start" ELSE client_tasks[p]]
    /\ mon_pc' = "sleep"
    /\ UNCHANGED <<route_config, mon_todo, reachable, failedThrice, last_send, otherVars>>

\* MessageClient.run, lines 263-272: the task starts, and opens its first
\* connection attempt if the client is running.
RunStart(p) ==
    /\ p \in DOMAIN client_tasks
    /\ client_tasks[p] = "start"
    /\ clients' = [clients EXCEPT ![p].retry_count = 0]
    /\ client_tasks' = [client_tasks EXCEPT ![p] =
                            IF clients[p].running THEN "handshake" ELSE "done"]
    /\ UNCHANGED <<route_config, router_running, mon_pc, mon_todo, reachable, failedThrice,
                   last_send, otherVars>>

\* MessageClient.run, lines 272-276: ws_connect succeeds.
HandshakeOk(p) ==
    /\ p \in DOMAIN client_tasks
    /\ client_tasks[p] = "handshake"
    /\ reachable[p]
    /\ clients' = [clients EXCEPT ![p].ws = "open", ![p].connected = TRUE,
                                  ![p].retry_count = 0]
    /\ client_tasks' = [client_tasks EXCEPT ![p] = "streaming"]
    /\ UNCHANGED <<route_config, router_running, mon_pc, mon_todo, reachable, failedThrice,
                   last_send, otherVars>>

\* MessageClient.run, lines 305-306 and 268: after a failed attempt or a lost
\* connection the loop sleeps and tries again for as long as the client runs.
AfterAttemptGivesUp(running) == "done"

AfterAttempt(running) == IF running THEN "backoff" ELSE "done"

\* MessageClient.run, lines 296-303: ws_connect raises.
HandshakeFail(p) ==
    /\ p \in DOMAIN client_tasks
    /\ client_tasks[p] = "handshake"
    /\ ~reachable[p]
    /\ clients[p].retry_count < MaxFailures
    /\ clients' = [clients EXCEPT ![p].retry_count = @ + 1, ![p].connected = FALSE,
                                  ![p].ws = "none"]
    /\ failedThrice' = [failedThrice EXCEPT ![p] = @ \/ clients[p].retry_count + 1 >= 3]
    /\ client_tasks' = [client_tasks EXCEPT ![p] = AfterAttempt(clients[p].running)]
    /\ UNCHANGED <<route_config, router_running, mon_pc, mon_todo, reachable, last_send,
                   otherVars>>

\* MessageClient.run, lines 279-294 and 301-303: the stream of frames ends
\* because the peer closed the connection.
ConnectionDrops(p) ==
    /\ p \in DOMAIN client_tasks
    /\ client_tasks[p] = "streaming"
    /\ clients' = [clients EXCEPT ![p].connected = FALSE, ![p].ws = "none"]
    /\ client_tasks' = [client_tasks EXCEPT ![p] = AfterAttempt(clients[p].running)]
    /\ UNCHANGED <<route_config, router_running, mon_pc, mon_todo, reachable, failedThrice,
                   last_send, otherVars>>

\* MessageClient.run, line 306 and back to line 268: the backoff sleep ends.
BackoffEnds(p) ==
    /\ p \in DOMAIN client_tasks
    /\ client_tasks[p] = "backoff"
    /\ client_tasks' = [client_tasks EXCEPT ![p] =
                            IF clients[p].running THEN "handshake" ELSE "done"]
    /\ UNCHANGED <<route_config, router_running, clients, mon_pc, mon_todo, reachable,
                   failedThrice, last_send, otherVars>>

\* The destination of a platform comes up, and stays up.
BecomeReachable(p) ==
    /\ ~reachable[p]
    /\ reachable' = [reachable EXCEPT ![p] = TRUE]
    /\ UNCHANGED <<route_config, router_running, clients, client_tasks, mon_pc, mon_todo,
                   failedThrice, last_send, otherVars>>

\* list(self.clients.keys()), in the order of the platform numbers.
RECURSIVE KeyList(_)
KeyList(keys) ==
    IF keys = {} THEN <<>>
    ELSE LET k == CHOOSE x \in keys : \A y \in keys : x <= y
         IN  <<k>> \o KeyList(keys \ {k})

\* _monitor_connections, lines 47-49 and 54: a sleep ends and a scan begins.
MonitorWake ==
    /\ mon_pc = "sleep"
    /\ router_running
    /\ mon_pc' = "scan"
    /\ mon_todo' = KeyList(DOMAIN clients)
    /\ UNCHANGED <<route_config, router_running, clients, client_tasks, reachable,
                   failedThrice, last_send, otherVars>>

\* _monitor_connections, lines 49-53, and _reconnect_platform, lines 58-62:
\* the scan visits its next platform; the run task of a client that is not
\* connected is cancelled and awaited.
MonitorScan ==
    /\ mon_pc = "scan"
    /\ IF mon_todo = <<>>
          THEN /\ mon_pc' = "sleep"
               /\ UNCHANGED <<mon_todo, clients, client_tasks>>
          ELSE LET p == Head(mon_todo)
               IN  IF p \notin DOMAIN clients
                      THEN /\ mon_pc' = "dead"
                           /\ UNCHANGED <<mon_todo, clients, client_tasks>>
                   ELSE IF clients[p].connected
                      THEN /\ mon_todo' = Tail(mon_todo)
                           /\ UNCHANGED <<mon_pc, clients, client_tasks>>
                   ELSE /\ mon_pc' = IF p \in DOMAIN client_tasks THEN "await_task"
                                                                 ELSE "reconnect"
                        /\ client_tasks' = [q \in DOMAIN client_tasks |->
                                               IF q = p THEN "cancelled" ELSE client_tasks[q]]
                        /\ clients' = [clients EXCEPT ![p].connected = FALSE,
                                                      ![p].ws = "none"]
                        /\ UNCHANGED mon_todo
    /\ UNCHANGED <<route_config, router_running, reachable, failedThrice, last_send,
                   otherVars>>

\* _reconnect_platform, lines 63-69: the old task and client are dropped and
\* Router.connect makes new ones.  The monitor task ends with a KeyError if
\* the task entry it awaited is gone, and with the ValueError of connect if
\* the platform has no route any more.
MonitorReconnect ==
    /\ mon_pc \in {"await_task", "reconnect"}
    /\ LET p == Head(mon_todo)
       IN  IF mon_pc = "await_task" /\ p \notin DOMAIN client_tasks
              THEN /\ mon_pc' = "dead"
                   /\ UNCHANGED <<clients, client_tasks, mon_todo>>
           ELSE IF p \notin DOMAIN route_config
              THEN /\ mon_pc' = "dead"
                   /\ clients' = DictPop(clients, p)
                   /\ client_tasks' = DictPop(client_tasks, p)
                   /\ UNCHANGED mon_todo
              ELSE LET made == RouterConnect(route_config, DictPop(clients, p),
                                             DictPop(client_tasks, p), p, router_running)
                   IN  /\ clients' = made.clients
                       /\ client_tasks' = made.tasks
                       /\ mon_todo' = Tail(mon_todo)
                       /\ mon_pc' = "scan"
    /\ UNCHANGED <<route_config, router_running, reachable, failedThrice, last_send,
                   otherVars>>

\* Router.send_message for a message of platform p, with
\* MessageClient.send_message.
send_message(p) ==
    /\ LET url == get_target_url(route_config, p)
       IN  IF url = NoTarget
          THEN /\ last_send' = "no_route"
               /\ UNCHANGED clients
          ELSE LET cl == IF p \in DOMAIN clients THEN clients
                                                  ELSE DictSet(clients, p, NewClient(url))
               IN  /\ clients' = cl
                   /\ last_send' = IF cl[p].connected THEN "ok" ELSE "not_connected"
    /\ UNCHANGED <<route_config, router_running, client_tasks, mon_pc, mon_todo, reachable,
                   failedThrice, otherVars>>

NextRouter ==
    \/ router_run
    \/ \E p \in Platforms : RunStart(p)
    \/ \E p \in Platforms : HandshakeOk(p)
    \/ \E p \in Platforms : HandshakeFail(p)
    \/ \E p \in Platforms : ConnectionDrops(p)
    \/ \E p \in Platforms : BackoffEnds(p)
    \/ \E p \in Platforms : BecomeReachable(p)
    \/ MonitorWake
    \/ MonitorScan
    \/ MonitorReconnect
    \/ \E p \in Platforms \cup {Unrouted} : send_message(p)

SpecRouter == Init /\ [][NextRouter]_vars

\* The event loop runs every task that is ready: Router.run and the monitor go
\* on.  A step of a client's run task is taken if it is ready again and again:
\* the monitor cancels a run task at most once in each of its 5-second
\* periods, and a step of the task that is ready (the start of the task, the end
\* of an attempt on a destination that accepts connections, the end of the
\* backoff sleep) takes less than that.
FairRouter ==
    /\ SpecRouter
    /\ WF_vars(router_run)
    /\ WF_vars(MonitorWake)
    /\ WF_vars(MonitorScan)
    /\ WF_vars(MonitorReconnect)
    /\ \A p \in Platforms :
          /\ SF_vars(RunStart(p))
          /\ SF_vars(HandshakeOk(p))
          /\ SF_vars(BackoffEnds(p))

\* MessageClient.stop(), lines 308-314, called by the owner of the client:
\* the loop is told to end and the socket is closed.
ClientStop(p) ==
    /\ p \in DOMAIN clients
    /\ clients[p].running
    /\ clients' = [clients EXCEPT ![p].running = FALSE, ![p].connected = FALSE,
                                  ![p].ws = "none"]
    /\ UNCHANGED <<route_config, router_running, client_tasks, mon_pc, mon_todo, reachable,
                   failedThrice, last_send, otherVars>>

\* MessageClient.send_message, lines 321-325: sending on the socket raises;
\* the client is marked not connected and the socket reference is kept.
ClientSendFails(p) ==
    /\ p \in DOMAIN clients
    /\ clients[p].connected
    /\ clients' = [clients EXCEPT ![p].connected = FALSE]
    /\ last_send' = "send_failed"
    /\ UNCHANGED <<route_config, router_running, client_tasks, mon_pc, mon_todo, reachable,
                   failedThrice, otherVars>>

\* The run loop of a client on its own: its task is created by Router.run and
\* nothing but stop() interferes with it.
NextClient ==
    \/ router_run
    \/ \E p \in Platforms : RunStart(p)
    \/ \E p \in Platforms : HandshakeOk(p)
    \/ \E p \in Platforms : HandshakeFail(p)
    \/ \E p \in Platforms : ConnectionDrops(p)
    \/ \E p \in Platforms : BackoffEnds(p)
    \/ \E p \in Platforms : BecomeReachable(p)
    \/ \E p \in Platforms : ClientStop(p)
    \/ \E p \in Platforms : send_message(p)
    \/ \E p \in Platforms : ClientSendFails(p)

SpecClient == Init /\ [][NextClient]_vars

(***************************************************************************)
(* Router.update_config.  A call runs without a break up to the await of   *)
(* the cancelled run task in remove_platform (line 86), the one place      *)
(* where it is suspended, and from there to the next such await or to its  *)
(* end.  The state of a call is a record st of the route table, the        *)
(* clients, the tasks, the two work lists and where the call is.           *)
(***************************************************************************)
Tables == UNION {[D -> Targets] : D \in SUBSET ConfigPlatforms}

\* The task after task.cancel() of lines 84-85.
CancelTask(pc) == IF pc = "done" THEN "done" ELSE "cancelled"

\* remove_platform, lines 79-86, and lines 89-91 when there is no task to
\* await.
BeginRemove(st, p) ==
    IF p \in DOMAIN st.tasks
       THEN [st EXCEPT !.route = DictPop(@, p),
                       !.tasks = [q \in DOMAIN @ |-> IF q = p THEN CancelTask(@[q]) ELSE @[q]],
                       !.clients = [q \in DOMAIN @ |->
                                       IF q = p THEN [@[q] EXCEPT !.connected = FALSE,
                                                                  !.ws = "none"]
                                                ELSE @[q]],
                       !.pc = "removing"]
       ELSE [st EXCEPT !.route = DictPop(@, p), !.clients = DictPop(@, p)]

\* remove_platform, lines 87-91, after the await: del of a task entry that is
\* gone raises KeyError.
FinishRemove(st, p) ==
    IF p \notin DOMAIN st.tasks
       THEN [st EXCEPT !.pc = "raised"]
       ELSE [st EXCEPT !.tasks = DictPop(@, p), !.clients = DictPop(@, p), !.pc = "idle"]

\* add_platform for the target of the new table.
AddPlatform(st, p) ==
    LET table == DictSet(st.route, p, st.new[p])
        made == RouterConnect(table, st.clients, st.tasks, p, st.running)
    IN  IF st.running
           THEN [st EXCEPT !.route = table, !.clients = made.clients, !.tasks = made.tasks]
           ELSE [st EXCEPT !.route = table]

\* _adjust_connections from where the call is, and line 211 at its end.
RECURSIVE Adjust(_)
Adjust(st) ==
    IF st.remove # <<>>
       THEN LET r == BeginRemove(st, Head(st.remove))
            IN  IF r.pc = "removing" THEN r
                ELSE Adjust([r EXCEPT !.remove = Tail(@)])
    ELSE IF st.add # <<>>
       THEN LET p == Head(st.add)
            IN  IF p \in DOMAIN st.route
                   THEN IF st.new[p] # st.route[p]
                           THEN LET r == BeginRemove(st, p)
                                IN  IF r.pc = "removing" THEN r
                                    ELSE Adjust([AddPlatform(r, p) EXCEPT !.add = Tail(@)])
                           ELSE Adjust([st EXCEPT !.add = Tail(@)])
                   ELSE Adjust([AddPlatform(st, p) EXCEPT !.add = Tail(@)])
    ELSE [st EXCEPT !.route = st.new, !.pc = "idle"]

\* The state of the call as a record, and the variables set from one.
CallState ==
    [route |-> route_config, clients |-> clients, tasks |-> client_tasks,
     remove |-> upd_remove, add |-> upd_add, new |-> upd_new,
     running |-> router_running, pc |-> upd_pc]

SetCallState(st) ==
    /\ route_config' = st.route
    /\ clients' = st.clients
    /\ client_tasks' = st.tasks
    /\ upd_remove' = st.remove
    /\ upd_add' = st.add
    /\ upd_pc' = st.pc

\* update_config(config_data), up to its first suspension or its end.
update_config(new_config) ==
    /\ upd_pc \in {"idle", "raised"}
    /\ upd_count < MaxUpdates
    /\ upd_count' = upd_count + 1
    /\ upd_new' = new_config
    /\ upd_old' = route_config
    /\ IF router_running
          THEN SetCallState(Adjust([CallState EXCEPT
                   !.new = new_config,
                   !.pc = "idle",
                   !.remove = KeyList((DOMAIN route_config) \ DOMAIN new_config),
                   !.add = KeyList(DOMAIN new_config)]))
          ELSE /\ route_config' = new_config
               /\ upd_pc' = "idle"
               /\ UNCHANGED <<clients, client_tasks, upd_remove, upd_add>>
    /\ UNCHANGED <<router_running, mon_pc, mon_todo, reachable, failedThrice, last_send,
                   storeVars, recvVars, fwdVars, sendVars, rawVars, hbVars, calVars, nestVars, lifeVars, timedVars, serverVars>>

\* update_config goes on after the await in remove_platform, up to its next
\* suspension or its end.
RemoveResume ==
    /\ upd_pc = "removing"
    /\ LET removing == upd_remove # <<>>
           p == IF removing THEN Head(upd_remove) ELSE Head(upd_add)
           r == FinishRemove(CallState, p)
       IN  IF r.pc = "raised" THEN SetCallState(r)
           ELSE IF removing THEN SetCallState(Adjust([r EXCEPT !.remove = Tail(@)]))
           ELSE SetCallState(Adjust([AddPlatform(r, p) EXCEPT !.add = Tail(@)]))
    /\ UNCHANGED <<upd_new, upd_old, upd_count, router_running, mon_pc, mon_todo, reachable,
                   failedThrice, last_send, storeVars, recvVars, fwdVars, sendVars, rawVars, hbVars, calVars, nestVars, lifeVars, timedVars, serverVars>>

NextConfig ==
    \/ router_run
    \/ \E p \in ConfigPlatforms : RunStart(p)
    \/ \E p \in ConfigPlatforms : HandshakeOk(p)
    \/ \E p \in ConfigPlatforms : HandshakeFail(p)
    \/ \E p \in ConfigPlatforms : ConnectionDrops(p)
    \/ \E p \in ConfigPlatforms : BackoffEnds(p)
    \/ \E p \in ConfigPlatforms : BecomeReachable(p)
    \/ MonitorWake
    \/ MonitorScan
    \/ MonitorReconnect
    \/ \E p \in ConfigPlatforms \cup {Unrouted} : send_message(p)
    \/ \E new_config \in Tables : update_config(new_config)
    \/ RemoveResume

SpecConfig == Init /\ [][NextConfig]_vars

(***************************************************************************)
(* The life of the router: add_platform, remove_platform and stop called   *)
(* on a router with its clients; the monitor task sleeps.  A run task that  *)
(* is created by Router.connect lives on when its entry of _client_tasks   *)
(* is overwritten or deleted without a cancel: orphan_tasks has these      *)
(* tasks, each with the platform and the _running flag of its client.      *)
(***************************************************************************)
lifeOthers == <<storeVars, recvVars, fwdVars, sendVars, rawVars, configVars, hbVars, calVars, nestVars, timedVars, serverVars>>

\* A task runs as long as it is neither finished nor cancelled.
Live(pc) == pc \notin {"done", "cancelled"}

\* The tasks without an entry after the entry of platform p is overwritten or
\* deleted without a cancel; running is the _running flag of its client.
Orphaned(tasks, p, running) ==
    IF p \in DOMAIN tasks /\ Live(tasks[p])
       THEN Append(orphan_tasks, [platform |-> p, pc |-> tasks[p], running |-> running])
       ELSE orphan_tasks

\* Router.add_platform, lines 71-75, with Router.connect.
add_platform(p, target) ==
    /\ Len(orphan_tasks) < MaxOrphans
    /\ route_config' = DictSet(route_config, p, target)
    /\ IF router_running
          THEN LET made == RouterConnect(route_config', clients, client_tasks, p, TRUE)
               IN  /\ clients' = made.clients
                   /\ client_tasks' = made.tasks
                   /\ orphan_tasks' = Orphaned(client_tasks, p,
                                               IF p \in DOMAIN clients THEN clients[p].running
                                                                       ELSE TRUE)
          ELSE UNCHANGED <<clients, client_tasks, orphan_tasks>>
    /\ UNCHANGED <<router_running, mon_pc, mon_todo, reachable, failedThrice, last_send,
                   rm_platform, stop_pc, lifeOthers>>

\* Router.remove_platform, lines 77-86, up to the await of the cancelled task,
\* or to its end when the platform has no task.
remove_platform(p) ==
    /\ rm_platform = 0
    /\ LET r == BeginRemove([route |-> route_config, clients |-> clients,
                             tasks |-> client_tasks, pc |-> "idle"], p)
       IN  /\ route_config' = r.route
           /\ clients' = r.clients
           /\ client_tasks' = r.tasks
           /\ rm_platform' = IF r.pc = "removing" THEN p ELSE 0
    /\ UNCHANGED <<router_running, mon_pc, mon_todo, reachable, failedThrice, last_send,
                   orphan_tasks, stop_pc, lifeOthers>>

\* Router.remove_platform, lines 87-91, after the await: the entry that is in
\* _client_tasks now is deleted and the client that is in clients now is
\* stopped and deleted.
RemoveFinish ==
    /\ rm_platform # 0
    /\ LET p == rm_platform
           r == FinishRemove([clients |-> clients, tasks |-> client_tasks, pc |-> "removing"], p)
       IN  /\ clients' = r.clients
           /\ client_tasks' = r.tasks
           /\ orphan_tasks' = IF r.pc = "raised" THEN orphan_tasks
                              ELSE Orphaned(client_tasks, p, FALSE)
    /\ rm_platform' = 0
    /\ UNCHANGED <<route_config, router_running, mon_pc, mon_todo, reachable, failedThrice,
                   last_send, stop_pc, lifeOthers>>

\* MessageClient.run for a task without an entry: the next step of the loop.
OrphanNext(o) ==
    CASE o.pc \in {"start", "backoff"} -> IF o.running THEN "handshake" ELSE "done"
      [] o.pc = "handshake" -> IF reachable[o.platform] THEN "streaming"
                                                       ELSE AfterAttempt(o.running)
      [] o.pc = "streaming" -> AfterAttempt(o.running)
      [] OTHER -> o.pc

OrphanStep(i) ==
    /\ i \in DOMAIN orphan_tasks
    /\ OrphanNext(orphan_tasks[i]) # orphan_tasks[i].pc
    /\ orphan_tasks' = [orphan_tasks EXCEPT ![i].pc = OrphanNext(orphan_tasks[i])]
    /\ UNCHANGED <<routerVars, rm_platform, stop_pc, lifeOthers>>

\* Router.stop, lines 131-136: the router is told to stop and the monitor task
\* is cancelled and awaited.
router_stop ==
    /\ router_running
    /\ stop_pc = "idle"
    /\ router_running' = FALSE
    /\ mon_pc' = IF mon_pc = "dead" THEN "dead" ELSE "off"
    /\ stop_pc' = "cancel_tasks"
    /\ UNCHANGED <<route_config, clients, client_tasks, mon_todo, reachable, failedThrice,
                   last_send, orphan_tasks, rm_platform, lifeOthers>>

\* Router.stop, lines 138-144: every task of _client_tasks is cancelled and
\* awaited.
StopCancelTasks ==
    /\ stop_pc = "cancel_tasks"
    /\ client_tasks' = [p \in DOMAIN client_tasks |-> CancelTask(client_tasks[p])]
    /\ clients' = [p \in DOMAIN clients |->
                      IF p \in DOMAIN client_tasks
                         THEN [clients[p] EXCEPT !.connected = FALSE, !.ws = "none"]
                         ELSE clients[p]]
    /\ stop_pc' = "await_tasks"
    /\ UNCHANGED <<route_config, router_running, mon_pc, mon_todo, reachable, failedThrice,
                   last_send, orphan_tasks, rm_platform, lifeOthers>>

\* Router.stop, lines 145-155: the task map is cleared, every client of the
\* clients map is stopped and the clients map is cleared.
StopFinish ==
    /\ stop_pc = "await_tasks"
    /\ client_tasks' = EmptyDict
    /\ clients' = EmptyDict
    /\ stop_pc' = "stopped"
    /\ UNCHANGED <<route_config, router_running, mon_pc, mon_todo, reachable, failedThrice,
                   last_send, orphan_tasks, rm_platform, lifeOthers>>

\* Router.run on a router that has not been stopped.
RunRouter ==
    /\ stop_pc = "idle"
    /\ router_run

NextLife ==
    \/ RunRouter
    \/ \E p \in Platforms : RunStart(p)
    \/ \E p \in Platforms : HandshakeOk(p)
    \/ \E p \in Platforms : HandshakeFail(p)
    \/ \E p \in Platforms : ConnectionDrops(p)
    \/ \E p \in Platforms : BackoffEnds(p)
    \/ \E p \in Platforms : BecomeReachable(p)
    \/ \E p \in Platforms, target \in Targets : add_platform(p, target)
    \/ \E p \in Platforms : remove_platform(p)
    \/ RemoveFinish
    \/ \E i \in 1..MaxOrphans : OrphanStep(i)
    \/ router_stop
    \/ StopCancelTasks
    \/ StopFinish

SpecLife == Init /\ [][NextLife]_vars

(***************************************************************************)
(* The consumer loop with a handler that awaits a correlated lookup.       *)
(*                                                                         *)
(* handle_raw_message and the lookups of utils.py send a request on the    *)
(* socket and await get_response(request_uuid) inside the handler that     *)
(* message_process awaits.  The call of the handler is waiter 1 of the     *)
(* store.  message_recv runs as the handler of the websockets server, a    *)
(* task of its own.                                                        *)
(***************************************************************************)
nestOthers == <<fwdVars, sendVars, routerVars, rawVars, configVars, hbVars, calVars, lifeVars, timedVars, serverVars>>

\* The waiter of the store that stands for the lookup of the handler.
HandlerCall == 1

\* The handler is suspended in the poll of get_response.
Suspended == cpc = "handling" /\ wpc[HandlerCall] = "poll"

\* utils.py lines 38-41 (and recv_handler.py lines 274-285): the handler sends
\* its request and enters get_response(request_uuid).
HandlerLookup(t) ==
    /\ cpc = "handling"
    /\ IssueRequest(HandlerCall, t)
    /\ lookup_at' = Len(recvd)
    /\ UNCHANGED <<recvVars, nestOthers>>

\* One turn of the poll of the lookup.
HandlerPoll ==
    /\ cpc = "handling"
    /\ get_response(HandlerCall)
    /\ UNCHANGED <<recvVars, nestOthers, lookup_at>>

\* get_response has returned or raised TimeoutError, which the lookup catches
\* (utils.py lines 42-44): the handler goes on to its end, then task_done()
\* and the sleep of main.py line 43.
HandlerResumes ==
    /\ cpc = "handling"
    /\ wpc[HandlerCall] \in {"returned", "timeout"}
    /\ cpc' = "sleep"
    /\ wpc' = [wpc EXCEPT ![HandlerCall] = "idle"]
    /\ UNCHANGED <<conn, recvd, message_queue, handled, debug_log, response_dict,
                   response_time_dict, now, putCount, wreq, wretry, wres, sweepAt,
                   cleaned_message_count, putSinceSweep, sweepClean, warning_log,
                   nestOthers, lookup_at>>

\* The frames of this scenario: events of two categories and responses.
NestedPostTypes == {"message", "meta_event", "none"}

NextNested ==
    \/ \E pt \in NestedPostTypes, t \in Tokens : message_recv(pt, t)
    \/ message_process
    \/ \E t \in Tokens : HandlerLookup(t)
    \/ HandlerPoll
    \/ HandlerResumes
    \/ wpc[HandlerCall] = "idle" /\ HandlerReturns
    \/ ProcessSleepEnds

SpecNested == Init /\ [][NextNested]_vars

\* The event loop runs every task whose sleep has ended: the poll of the
\* suspended handler gets its next turn.
FairNested == SpecNested /\ WF_vars(HandlerPoll)

(***************************************************************************)
(* MessageServer: the websockets it has accepted and its two collections.  *)
(* A websocket is the number of its accept.                                *)
(***************************************************************************)
serverOthers == <<storeVars, recvVars, fwdVars, sendVars, routerVars, rawVars, configVars, hbVars, calVars, nestVars, lifeVars, timedVars>>

\* _remove_websocket(websocket, platform), lines 123-129: the two collections
\* afterwards.
RemoveFromActive(active, websocket) == active \ {websocket}

RemoveFromPlatforms(table, websocket, platform) ==
    IF platform \in DOMAIN table /\ table[platform] = websocket
       THEN DictPop(table, platform) ELSE table

\* websocket_endpoint, lines 104-109: the platform mapping after an accept.
AddToPlatforms(table, websocket, platform) ==
    IF platform \notin DOMAIN table THEN DictSet(table, platform, websocket) ELSE table

\* websocket_endpoint, lines 95-113: a client with the platform header
\* connects, is accepted and registered, and its receive loop begins.
websocket_endpoint(platform) ==
    /\ Len(ws_platform) < MaxSockets
    /\ LET websocket == Len(ws_platform) + 1
       IN  /\ ws_platform' = Append(ws_platform, platform)
           /\ endpoints' = endpoints \cup {websocket}
           /\ active_websockets' = active_websockets \cup {websocket}
           /\ platform_websockets' = AddToPlatforms(platform_websockets, websocket, platform)
    /\ UNCHANGED <<last_broadcast, serverOthers>>

\* websocket_endpoint, lines 114-121: receive_json raises because the client
\* has gone; the websocket is removed.
Disconnect(websocket) ==
    /\ websocket \in endpoints
    /\ endpoints' = endpoints \ {websocket}
    /\ active_websockets' = RemoveFromActive(active_websockets, websocket)
    /\ platform_websockets' = RemoveFromPlatforms(platform_websockets, websocket,
                                                  ws_platform[websocket])
    /\ UNCHANGED <<ws_platform, last_broadcast, serverOthers>>

\* broadcast_to_platform(platform, message), lines 141-154; sent is whether
\* send_json returns or raises.
broadcast_to_platform(platform, sent) ==
    /\ IF platform \notin DOMAIN platform_websockets
          THEN /\ last_broadcast' = "no_websocket"
               /\ UNCHANGED <<active_websockets, platform_websockets>>
          ELSE IF sent
          THEN /\ last_broadcast' = "sent"
               /\ UNCHANGED <<active_websockets, platform_websockets>>
          ELSE LET websocket == platform_websockets[platform]
               IN  /\ last_broadcast' = "failed"
                   /\ active_websockets' = RemoveFromActive(active_websockets, websocket)
                   /\ platform_websockets' = RemoveFromPlatforms(platform_websockets,
                                                                 websocket, platform)
    /\ UNCHANGED <<ws_platform, endpoints, serverOthers>>

NextServer ==
    \/ \E platform \in Platforms : websocket_endpoint(platform)
    \/ \E websocket \in 1..MaxSockets : Disconnect(websocket)
    \/ \E platform \in Platforms, sent \in BOOLEAN : broadcast_to_platform(platform, sent)

SpecServer == Init /\ [][NextServer]_vars

(***************************************************************************)
(* The Correlation Store with its callers.                                 *)
(***************************************************************************)
NextStore ==
    \/ Tick /\ UNCHANGED <<recvVars, fwdVars, sendVars, routerVars, rawVars, configVars, hbVars, calVars, nestVars, lifeVars, timedVars, serverVars>>
    \/ \E w \in Waiters, t \in Tokens : IssueRequest(w, t) /\ UNCHANGED <<recvVars, fwdVars, sendVars, routerVars, rawVars, configVars, hbVars, calVars, nestVars, lifeVars, timedVars, serverVars>>
    \/ \E w \in Waiters : get_response(w) /\ UNCHANGED <<recvVars, fwdVars, sendVars, routerVars, rawVars, configVars, hbVars, calVars, nestVars, lifeVars, timedVars, serverVars>>
    \/ \E t \in Tokens : put_response(t) /\ UNCHANGED <<recvVars, fwdVars, sendVars, routerVars, rawVars, configVars, hbVars, calVars, nestVars, lifeVars, timedVars, serverVars>>
    \/ check_timeout_response /\ UNCHANGED <<recvVars, fwdVars, sendVars, routerVars, rawVars, configVars, hbVars, calVars, nestVars, lifeVars, timedVars, serverVars>>

SpecStore == Init /\ [][NextStore]_vars

\* The event loop runs every task whose sleep has ended: a polling get_response
\* gets its next turn.
FairStore == SpecStore /\ \A w \in Waiters : WF_vars(get_response(w) /\ UNCHANGED <<recvVars, fwdVars, sendVars, routerVars, rawVars, configVars, hbVars, calVars, nestVars, lifeVars, timedVars, serverVars>>)

\* The store with the clock and the sweep going on: time.time() advances and
\* the event loop runs the sweep task when its sleep has ended.  The clock of
\* the model stops at MaxTime, so responses are put while two sleeps of the
\* sweep still fit before it.
NextSweep ==
    \/ Tick /\ UNCHANGED <<recvVars, fwdVars, sendVars, routerVars, rawVars, configVars, hbVars, calVars, nestVars, lifeVars, timedVars, serverVars>>
    \/ \E w \in Waiters, t \in Tokens : IssueRequest(w, t) /\ UNCHANGED <<recvVars, fwdVars, sendVars, routerVars, rawVars, configVars, hbVars, calVars, nestVars, lifeVars, timedVars, serverVars>>
    \/ \E w \in Waiters : get_response(w) /\ UNCHANGED <<recvVars, fwdVars, sendVars, routerVars, rawVars, configVars, hbVars, calVars, nestVars, lifeVars, timedVars, serverVars>>
    \/ \E t \in Tokens :
          /\ now + 2 * napcat_heartbeat_interval <= MaxTime
          /\ put_response(t)
          /\ UNCHANGED <<recvVars, fwdVars, sendVars, routerVars, rawVars, configVars, hbVars, calVars, nestVars, lifeVars, timedVars, serverVars>>
    \/ check_timeout_response /\ UNCHANGED <<recvVars, fwdVars, sendVars, routerVars, rawVars, configVars, hbVars, calVars, nestVars, lifeVars, timedVars, serverVars>>

FairSweep ==
    /\ Init /\ [][NextSweep]_vars
    /\ WF_vars(Tick /\ UNCHANGED <<recvVars, fwdVars, sendVars, routerVars, rawVars, configVars, hbVars, calVars, nestVars, lifeVars, timedVars, serverVars>>)
    /\ WF_vars(check_timeout_response /\ UNCHANGED <<recvVars, fwdVars, sendVars, routerVars, rawVars, configVars, hbVars, calVars, nestVars, lifeVars, timedVars, serverVars>>)
    /\ \A w \in Waiters : WF_vars(get_response(w) /\ UNCHANGED <<recvVars, fwdVars, sendVars, routerVars, rawVars, configVars, hbVars, calVars, nestVars, lifeVars, timedVars, serverVars>>)

(***************************************************************************)
(* The store on a clock of poll periods.                                   *)
(*                                                                         *)
(* The unit of now is the 0.2 s that get_response sleeps between two       *)
(* polls.  The event loop runs a waiter when its sleep has ended: the      *)
(* clock does not pass the time at which a poll is due.  The sweep runs     *)
(* when its sleep has ended or later.  The heartbeat interval is read from *)
(* the configuration file; window 0 stands for an interval shorter than    *)
(* one poll period.                                                        *)
(***************************************************************************)
timedOthers == <<recvVars, fwdVars, sendVars, routerVars, rawVars, configVars, hbVars, calVars, nestVars, lifeVars, serverVars>>

SweepWindows == {0} \cup {PollsPerSecond * i : i \in 1..napcat_heartbeat_interval}

MaxPollTime == PollsPerSecond * napcat_heartbeat_interval + 1

\* config.py, line 45: the heartbeat interval of the configuration file.
LoadConfig(window) ==
    /\ sweep_window = -1
    /\ sweep_window' = window
    /\ UNCHANGED <<storeVars, wdue, timedOthers>>

\* get_response, line 19: the time at which the sleep that begins at now_time
\* ends.
NextPoll(now_time) == now_time + 1

\* get_response(request_id) from the call to its first await (or to its
\* return): lines 13-19, or 13-15 and 20-22.
get_response_call(w, t) ==
    /\ sweep_window >= 0
    /\ wpc[w] = "idle"
    /\ wreq' = [wreq EXCEPT ![w] = t]
    /\ IF t \in DOMAIN response_dict
          THEN /\ wres' = [wres EXCEPT ![w] = response_dict[t]]
               /\ response_dict' = Claim(response_dict, t)
               /\ response_time_dict' = Claim(response_time_dict, t)
               /\ wpc' = [wpc EXCEPT ![w] = "returned"]
               /\ wretry' = [wretry EXCEPT ![w] = 0]
          ELSE /\ wretry' = [wretry EXCEPT ![w] = NextRetry(0)]
               /\ wpc' = [wpc EXCEPT ![w] = IF RetriesExhausted(NextRetry(0)) THEN "timeout"
                                                                              ELSE "poll"]
               /\ UNCHANGED <<response_dict, response_time_dict, wres>>
    /\ wdue' = [wdue EXCEPT ![w] = IF wpc'[w] = "poll" THEN NextPoll(now) ELSE 0]
    /\ UNCHANGED <<now, putCount, sweepAt, cleaned_message_count, putSinceSweep, sweepClean,
                   warning_log, sweep_window, timedOthers>>

\* One turn of the loop of get_response when its sleep has ended.
TimedPoll(w) ==
    /\ wdue[w] <= now
    /\ get_response(w)
    /\ wdue' = [wdue EXCEPT ![w] = IF wpc'[w] = "poll" THEN NextPoll(now) ELSE 0]
    /\ UNCHANGED <<sweep_window, timedOthers>>

\* put_response(response) on this clock.
TimedPut(t) ==
    /\ sweep_window >= 0
    /\ putCount < MaxPuts
    /\ putCount' = putCount + 1
    /\ response_dict' = DictSet(response_dict, t, [echo |-> t, serial |-> putCount + 1])
    /\ response_time_dict' = Stamp(response_time_dict, t, now)
    /\ UNCHANGED <<now, wpc, wreq, wretry, wres, sweepAt, cleaned_message_count,
                   putSinceSweep, sweepClean, warning_log, timedVars, timedOthers>>

\* A poll is due: the sleep of a waiter has ended.
PollDue == \E w \in Waiters : wpc[w] = "poll" /\ wdue[w] <= now

\* The clock advances by one poll period.
TimedTick ==
    /\ sweep_window >= 0
    /\ now < MaxPollTime
    /\ ~PollDue
    /\ now' = now + 1
    /\ UNCHANGED <<response_dict, response_time_dict, putCount, wpc, wreq, wretry, wres,
                   sweepAt, cleaned_message_count, putSinceSweep, sweepClean, warning_log,
                   timedVars, timedOthers>>

\* check_timeout_response, line 37, with the configured interval.
Expired(times, now_time, window) == {t \in DOMAIN times : now_time - times[t] > window}

\* One pass of check_timeout_response with the configured interval, followed
\* by its sleep.
TimedSweep ==
    /\ sweep_window >= 0
    /\ sweepAt < 0 \/ now >= sweepAt + sweep_window
    /\ LET gone == Expired(response_time_dict, now, sweep_window)
       IN  /\ response_dict' = DictPopAll(response_dict, gone)
           /\ response_time_dict' = DictPopAll(response_time_dict, gone)
           /\ cleaned_message_count' = Cardinality(gone)
           /\ warning_log' = warning_log + Cardinality(gone)
    /\ sweepAt' = now
    /\ UNCHANGED <<now, putCount, wpc, wreq, wretry, wres, putSinceSweep, sweepClean,
                   timedVars, timedOthers>>

NextTimed ==
    \/ \E window \in SweepWindows : LoadConfig(window)
    \/ \E w \in Waiters, t \in Tokens : get_response_call(w, t)
    \/ \E w \in Waiters : TimedPoll(w)
    \/ \E t \in Tokens : TimedPut(t)
    \/ TimedTick
    \/ TimedSweep

SpecTimed == Init /\ [][NextTimed]_vars

(***************************************************************************)
(* C1: a stored response is returned to at most one get_response caller,   *)
(* also when two callers wait on the same token; a call that returned      *)
(* holds the response stored under its own token, the claimed response is  *)
(* no longer in the store, and a call that timed out returned nothing.     *)
(***************************************************************************)
C1_ResolvedOnce ==
    /\ \A w1, w2 \in Waiters :
          (w1 # w2 /\ wpc[w1] = "returned" /\ wpc[w2] = "returned") => wres[w1] # wres[w2]
    /\ \A w \in Waiters :
          /\ wpc[w] = "returned" =>
                /\ wres[w] # NoResponse
                /\ wres[w].echo = wreq[w]
                /\ \A t \in DOMAIN response_dict : response_dict[t] # wres[w]
          /\ wpc[w] # "returned" => wres[w] = NoResponse

\* Two calls on the same token have both ended, one of them with a response.
C1_Witness ==
    \E w1, w2 \in Waiters :
        /\ w1 # w2
        /\ wreq[w1] = wreq[w2]
        /\ wpc[w1] = "returned"
        /\ wpc[w2] \in {"returned", "timeout"}

(***************************************************************************)
(* C2: every get_response call ends, with the response stored under its    *)
(* token or with the timeout error: no call polls forever (a call leaves   *)
(* "poll" only by returning or by raising), and its retry count never      *)
(* passes max_retries, whatever puts and sweeps happen meanwhile.          *)
(***************************************************************************)
C2_GetTerminates ==
    /\ [](\A w \in Waiters : wretry[w] <= max_retries)
    /\ \A w \in Waiters : []<>(wpc[w] # "poll")

\* A call has given up after max_retries polls while puts went to another token.
C2_Witness ==
    \E w \in Waiters :
        /\ wpc[w] = "timeout"
        /\ wretry[w] = max_retries
        /\ putCount > 0

(***************************************************************************)
(* C10 as stated: when two consecutive passes of the sweep run with no     *)
(* put_response between them, the second pass removes no entry.            *)
(***************************************************************************)
C10_SecondPassRemovesNothing == sweepClean => cleaned_message_count = 0

(***************************************************************************)
(* C10 amended: when two consecutive passes of the sweep run with no       *)
(* put_response between them, every entry the second pass removes was not  *)
(* yet older than the interval when the first pass ran: it expired during  *)
(* the sleep between the passes.                                           *)
(***************************************************************************)
C10_SecondPassRemovesOnlyNewlyExpired ==
    [][(sweepAt' # sweepAt /\ sweepAt >= 0 /\ ~putSinceSweep) =>
         \A t \in (DOMAIN response_time_dict) \ (DOMAIN response_time_dict') :
             ~(sweepAt - response_time_dict[t] > napcat_heartbeat_interval)]_vars

\* A second pass with no put_response since the first has removed an entry.
C10_Witness == sweepClean /\ cleaned_message_count > 0

(***************************************************************************)
(* C3: the consumer loop starts handling the queued frames in exactly the  *)
(* order in which message_recv received them: the frames handled so far,   *)
(* followed by the frames still queued, are the message, meta_event and    *)
(* notice frames received, in receipt order, none skipped, duplicated or   *)
(* reordered.                                                              *)
(***************************************************************************)
IsQueued(frame) == frame.post_type \in Queued

C3_ReceiptOrder == handled \o message_queue = SelectSeq(recvd, IsQueued)

\* Three frames of the three queued categories have been handled.
C3_Witness ==
    /\ Len(handled) >= 3
    /\ {handled[i].post_type : i \in 1..Len(handled)} = Queued

(***************************************************************************)
(* C4: message_recv routes every decoded frame by its post_type: message,  *)
(* meta_event and notice go to the end of the queue and leave the store    *)
(* alone; a frame without post_type is put into the Correlation Store      *)
(* under its echo token and not into the queue; a frame with any other     *)
(* post_type is logged and changes neither the queue nor the store.        *)
(***************************************************************************)
C4_Routing ==
    [][Len(recvd') > Len(recvd) =>
         LET frame == recvd'[Len(recvd')]
         IN  CASE frame.post_type \in Queued ->
                    /\ message_queue' = Append(message_queue, frame)
                    /\ UNCHANGED <<response_dict, response_time_dict>>
               [] frame.post_type = "none" ->
                    /\ message_queue' = message_queue
                    /\ frame.echo \in DOMAIN response_dict'
                    /\ response_dict'[frame.echo].echo = frame.echo
                    /\ response_dict'[frame.echo].serial = putCount'
                    /\ putCount' = putCount + 1
                    /\ response_time_dict'[frame.echo] = now
                    /\ \A t \in Tokens \ {frame.echo} :
                          /\ (t \in DOMAIN response_dict') = (t \in DOMAIN response_dict)
                          /\ t \in DOMAIN response_dict => response_dict'[t] = response_dict[t]
               [] frame.post_type = "malformed" -> TRUE
               [] OTHER ->
                    /\ debug_log' = debug_log + 1
                    /\ UNCHANGED <<message_queue, response_dict, response_time_dict>>]_vars

\* A queued frame, a response and a frame of unknown post_type have been
\* classified: one is in the queue or handled, one in the store, one nowhere.
C4_Witness ==
    /\ \E i \in 1..Len(recvd) : recvd[i].post_type = "request"
    /\ \E i \in 1..Len(recvd) : recvd[i].post_type = "notice"
    /\ \E i \in 1..Len(recvd) :
          recvd[i].post_type = "none" /\ recvd[i].echo \in DOMAIN response_dict

(***************************************************************************)
(* C5: when message_recv reads a malformed frame, the frame is dropped,    *)
(* the queue and the Correlation Store are unchanged, and the connection   *)
(* stays open for the frames that follow.                                  *)
(***************************************************************************)
C5_MalformedKeepsConnection ==
    [][(Len(recvd') > Len(recvd) /\ recvd'[Len(recvd')].post_type = "malformed") =>
         /\ conn' = "open"
         /\ UNCHANGED <<message_queue, response_dict, response_time_dict>>]_vars

(***************************************************************************)
(* C6: for one top-level forward expansion whose expanded tree has n image *)
(* or emoji leaves, counted at every nesting depth, handle_forward_message *)
(* returns the tree unchanged if n = 0, with every image and emoji leaf    *)
(* replaced by its fetched base64 content if 1 <= n <= 4, and with every   *)
(* image and emoji leaf replaced by the fixed placeholder text, no image   *)
(* or emoji leaf remaining, if n >= 5.                                     *)
(***************************************************************************)
RECURSIVE ImageLeaves(_), ImageLeavesOf(_)
ImageLeavesOf(kids) ==
    IF kids = <<>> THEN 0 ELSE ImageLeaves(Head(kids)) + ImageLeavesOf(Tail(kids))

ImageLeaves(v) ==
    IF v.type \in {"image", "emoji"} THEN 1 ELSE ImageLeavesOf(v.kids)

\* result is tree with its image and emoji leaves treated as mode says; a leaf
\* whose download failed has no fetched content and is left open.
RECURSIVE FollowsPolicy(_, _, _)
FollowsPolicy(tree, result, mode) ==
    CASE tree.type \in {"image", "emoji"} ->
           IF mode = "base64"
              THEN FetchFails(tree.data) \/ result = Seg(tree.type, "base64")
              ELSE result \in {Seg("text", "<image>"), Seg("text", "<emoji>")}
      [] tree.type = "seglist" ->
           /\ result.type = "seglist"
           /\ Len(result.kids) = Len(tree.kids)
           /\ \A i \in 1..Len(tree.kids) : FollowsPolicy(tree.kids[i], result.kids[i], mode)
      [] OTHER -> result = tree

C6_ImagePolicy ==
    forward_result.status # "none" =>
        LET n == ImageLeaves(handled_message)
        IN  /\ forward_result.status = "returned"
            /\ n = 0 => forward_result.value = handled_message
            /\ (1 <= n /\ n <= 4) =>
                  FollowsPolicy(handled_message, forward_result.value, "base64")
            /\ n >= 5 =>
                  /\ FollowsPolicy(handled_message, forward_result.value, "placeholder")
                  /\ ImageLeaves(forward_result.value) = 0

(***************************************************************************)
(* C7: forward expansion ends for every input and does not expand a nested *)
(* forward beyond depth 3: for a forward nested 5 levels deep,             *)
(* handle_forward_message returns a result, with or without images in the  *)
(* tree, and what stands in the result for the forward that is too deep is *)
(* a text segment.                                                         *)
(***************************************************************************)
RECURSIVE ForwardDepth(_)
ForwardDepth(list) ==
    IF list = <<>> THEN 0
    ELSE LET here == IF Head(list).type = "forward"
                        THEN 1 + ForwardDepth(Head(list).content) ELSE 0
             rest == ForwardDepth(Tail(list))
         IN  IF here > rest THEN here ELSE rest

RECURSIVE HasTuple(_)
HasTuple(v) == v.type = "tuple" \/ \E i \in 1..Len(v.kids) : HasTuple(v.kids[i])

C7_DepthBound ==
    (forward_result.status # "none" /\ ForwardDepth(message_list) >= 5) =>
        /\ forward_result.status = "returned"
        /\ ~HasTuple(forward_result.value)

(***************************************************************************)
(* C8 as stated: for every outbound Segment tree that contains one reply   *)
(* leaf with a real message id, at any position, together with other       *)
(* leaves, the flattened payload has the reply element at index 0 and no   *)
(* reply element after it.                                                 *)
(***************************************************************************)
RECURSIVE LeavesOf(_), LeavesOfKids(_)
LeavesOfKids(kids) ==
    IF kids = <<>> THEN <<>> ELSE LeavesOf(Head(kids)) \o LeavesOfKids(Tail(kids))

LeavesOf(seg) == IF seg.type = "seglist" THEN LeavesOfKids(seg.kids) ELSE <<seg>>

IsReply(seg) == seg.type = "reply"

IsOther(seg) == seg.type # "reply"

OneRealReply(leaves) ==
    /\ Len(SelectSeq(leaves, IsReply)) = 1
    /\ \A i \in 1..Len(leaves) : IsReply(leaves[i]) => leaves[i].data # "notice"
    /\ Len(leaves) > 1

Flattened == send_pc # "build"

RootLeaves(seg) == IF seg.type = "seglist" THEN seg.kids ELSE <<seg>>

Emits(seg) == seg.type \in {"text", "image", "emoji"}

Connected(p) ==
    /\ p \in DOMAIN clients
    /\ clients[p].connected
    /\ clients[p].ws = "open"

C9_ReconnectResumes ==
    /\ [](router_running =>
            \A p \in DOMAIN client_tasks : client_tasks[p] # "done")
    /\ [][\A p \in Platforms :
              (Connected(p) /\ send_message(p)) => last_send' = "ok"]_vars
    /\ \A p \in Platforms :
          (router_running /\ reachable[p]) ~> (~router_running \/ Connected(p))

\* A platform whose client had failed 3 attempts in a row is Connected and a
\* message has been sent on it.
C9_Witness ==
    \E p \in Platforms :
        /\ failedThrice[p]
        /\ Connected(p)
        /\ last_send = "ok"

(***************************************************************************)
(* C11 as stated: handling the event {post_type "message", message_type    *)
(* "group", message [text "hi"]}, which has no sub_type and no sender,     *)
(* submits exactly one MessageBase whose segment tree is a seglist holding *)
(* the one text segment "hi".                                              *)
(***************************************************************************)
HiMessage == <<[type |-> "text", text |-> "hi"]>>

OneHiEnvelope ==
    /\ raw_pc = "submitted"
    /\ Len(submitted) = 1
    /\ submitted[1].message_segment = SegList(<<Seg("text", "hi")>>)

C11_GroupHiAsWritten ==
    (raw_pc # "idle" /\ raw_message = RawEvent("group", "none", FALSE, HiMessage))
        => OneHiEnvelope

(***************************************************************************)
(* C11 amended: the same event with sub_type "normal" and a sender submits *)
(* exactly one MessageBase whose segment tree is seglist[text "hi"]; a     *)
(* group event whose sub_type is not "normal" submits nothing.             *)
(***************************************************************************)
C11_GroupHiNormal ==
    /\ (raw_pc # "idle" /\ raw_message = RawEvent("group", "normal", TRUE, HiMessage))
          => OneHiEnvelope
    /\ (raw_pc # "idle" /\ raw_message.message_type = "group"
                        /\ raw_message.sub_type # "normal")
          => (raw_pc = "unsupported" /\ submitted = <<>>)

C11_Witness ==
    /\ raw_message = RawEvent("group", "normal", TRUE, HiMessage)
    /\ OneHiEnvelope

(***************************************************************************)
(* C12: Router.send_message for a platform that has no entry in            *)
(* route_config ends with the no-route error, sends nothing, and leaves    *)
(* the clients, the run tasks and route_config as they were.               *)
(***************************************************************************)
C12_NoRouteChangesNothing ==
    [][\A p \in Platforms \cup {Unrouted} :
          (p \notin DOMAIN route_config /\ send_message(p)) =>
              /\ last_send' = "no_route"
              /\ UNCHANGED <<clients, client_tasks, route_config>>]_vars

\* A send to a platform without a route has failed while the router runs
\* with a client.
C12_Witness ==
    /\ last_send = "no_route"
    /\ router_running
    /\ clients # EmptyDict

(***************************************************************************)
(* C13: Router.send_message for a platform that has a route but no client  *)
(* yet creates the client and delivers the envelope in that same call,     *)
(* when the destination is reachable.                                      *)
(***************************************************************************)
C13_LazyClientDelivers ==
    [][\A p \in Platforms :
          (/\ p \in DOMAIN route_config
           /\ p \notin DOMAIN clients
           /\ reachable[p]
           /\ send_message(p)) =>
              (p \in DOMAIN clients' /\ last_send' = "ok")]_vars

(***************************************************************************)
(* C14: a step of update_config on a running router leaves the client and  *)
(* the run task of every platform that has the same target in the old and  *)
(* the new table as they were, and when the call ends the platforms that   *)
(* have a client are exactly the keys of the new table.                    *)
(***************************************************************************)
UpdateStep == configVars' # configVars

SameTarget(p) ==
    /\ p \in DOMAIN upd_old' /\ p \in DOMAIN upd_new'
    /\ upd_old'[p] = upd_new'[p]

C14_UpdateTouchesOnlyChanged ==
    [][(UpdateStep /\ router_running) =>
          /\ \A p \in ConfigPlatforms :
                SameTarget(p) =>
                    /\ (p \in DOMAIN clients) = (p \in DOMAIN clients')
                    /\ p \in DOMAIN clients => clients'[p] = clients[p]
                    /\ (p \in DOMAIN client_tasks) = (p \in DOMAIN client_tasks')
                    /\ p \in DOMAIN client_tasks => client_tasks'[p] = client_tasks[p]
          /\ upd_pc' \in {"idle", "raised"} => DOMAIN clients' = DOMAIN upd_new']_vars

(***************************************************************************)
(* C15: a send_message that runs while update_config is suspended finds,   *)
(* for a platform that is in the old and in the new table, a route entry:  *)
(* it does not end with the no-route error.                                *)
(***************************************************************************)
C15_SendSeesAnEntry ==
    [][\A p \in ConfigPlatforms :
          (/\ upd_pc = "removing"
           /\ p \in DOMAIN upd_old /\ p \in DOMAIN upd_new
           /\ send_message(p)) => last_send' # "no_route"]_vars

(***************************************************************************)
(* C16: every entry stored by put_response is eventually removed, by the   *)
(* get_response that claims it, by a later put_response under the same     *)
(* token, or, when nobody claims it, by a pass of the sweep once it is     *)
(* older than the timeout window; and no pass removes an entry that is not *)
(* older than the window.                                                  *)
(***************************************************************************)
Stored(serial) == \E t \in DOMAIN response_dict : response_dict[t].serial = serial

C16_EntriesAreRemoved ==
    /\ \A serial \in 1..MaxPuts : []<>(~Stored(serial))
    /\ [][sweepAt' # sweepAt =>
            \A t \in (DOMAIN response_dict) \ (DOMAIN response_dict') :
                now - response_time_dict[t] > napcat_heartbeat_interval]_vars

\* The sweep has removed a response that arrived after its caller had timed
\* out.
C16_Witness ==
    \E w \in Waiters :
        /\ wpc[w] = "timeout"
        /\ putCount > 0
        /\ response_dict = EmptyDict
        /\ cleaned_message_count > 0
        /\ \A v \in Waiters : wpc[v] # "returned"

(***************************************************************************)
(* C19: a get_response that ends with the timeout error removes nothing:   *)
(* the responses and arrival times in the store, for its token and every   *)
(* other, are the same after the call as before.                           *)
(***************************************************************************)
C19_TimeoutRemovesNothing ==
    [][\A w \in Waiters :
          (wpc[w] = "poll" /\ wpc'[w] = "timeout") =>
              UNCHANGED <<response_dict, response_time_dict>>]_vars

\* A call has timed out while the store holds an entry.
C19_Witness ==
    \E w \in Waiters :
        /\ wpc[w] = "timeout"
        /\ response_dict # EmptyDict

(***************************************************************************)
(* C20: put_response for a token that still has an unclaimed entry         *)
(* overwrites it and logs a warning: afterwards the store has one entry    *)
(* for the token, with the second response and the second arrival time.    *)
(***************************************************************************)
C20_DuplicateOverwritesAndWarns ==
    [][\A t \in Tokens :
          (t \in DOMAIN response_dict /\ putCount' = putCount + 1
             /\ t \in DOMAIN response_dict' /\ response_dict'[t] # response_dict[t]) =>
              /\ response_dict'[t] = [echo |-> t, serial |-> putCount']
              /\ response_time_dict'[t] = now
              /\ warning_log' > warning_log]_vars

(***************************************************************************)
(* C17 as stated: once a watchdog has declared the connection Lost, no     *)
(* later event, heartbeat or lifecycle connect, starts watching again or   *)
(* brings the connection back to Alive.                                    *)
(***************************************************************************)
DeclaredLost == \E i \in Watchdogs : watchdog[i].pc = "lost"

C17_LostIsTerminal ==
    [][DeclaredLost =>
          \A i \in Watchdogs : watchdog[i].pc = "none" => watchdog'[i].pc = "none"]_vars

(***************************************************************************)
(* C17 amended: each watchdog task only moves from watching to lost, where *)
(* it stays; it declares lost only after a silence longer than the         *)
(* interval plus 3 seconds; a heartbeat event starts no watchdog and       *)
(* changes none; only a lifecycle connect event starts a watchdog, also    *)
(* after an earlier one has declared lost; and no step of the heartbeat    *)
(* code opens or closes the gateway connection.                            *)
(***************************************************************************)
WatchdogRank(pc) == CASE pc = "none" -> 0 [] pc = "watching" -> 1 [] pc = "lost" -> 2

C17_WatchdogLostIsFinal ==
    [][/\ \A i \in Watchdogs :
             /\ WatchdogRank(watchdog'[i].pc) >= WatchdogRank(watchdog[i].pc)
             /\ WatchdogRank(watchdog'[i].pc) <= WatchdogRank(watchdog[i].pc) + 1
             /\ (watchdog[i].pc = "none" /\ watchdog'[i].pc = "watching") =>
                    lifecycles' = lifecycles + 1
             /\ (watchdog[i].pc = "watching" /\ watchdog'[i].pc = "lost") =>
                    hb_time - last_heart_beat > interval + HeartbeatGrace
       /\ (lifecycles' = lifecycles + 1 /\ lifecycles < MaxLifecycles) =>
              watchdog'[lifecycles + 1].pc = "watching"
       /\ conn' = conn]_vars

\* After the first watchdog declared lost, a second lifecycle connect event
\* has started a watchdog that found the heartbeat in order.
C17_Witness ==
    /\ watchdog[1].pc = "lost"
    /\ watchdog[2].pc = "watching"
    /\ watchdog[2].wake > hb_time

(***************************************************************************)
(* C18: after any adds and removes, remove with the id of a stored event   *)
(* deletes exactly that one event and reports success: one event fewer is  *)
(* stored, no stored event has the id any more and the others are kept in  *)
(* their order; remove with an id that is not stored reports not-found and *)
(* leaves the events unchanged.                                            *)
(***************************************************************************)
HasId(list, event_id) == \E i \in 1..Len(list) : list[i].id = event_id

C18_RemoveDeletesThatEvent ==
    [][\A event_id \in 0..MaxCalTime :
          remove_event(event_id) =>
              IF HasId(events, event_id)
                 THEN /\ cal_result'.status = "success"
                      /\ Len(events') = Len(events) - 1
                      /\ ~HasId(events', event_id)
                      /\ LET Other(e) == e.id # event_id
                         IN  events' = SelectSeq(events, Other)
                 ELSE /\ cal_result' = [status |-> "error", kind |-> "not_found"]
                      /\ events' = events]_vars

(***************************************************************************)
(* C21: while the consumer loop is suspended inside a handler that awaits  *)
(* get_response, message_recv keeps reading: a frame can still be read and *)
(* classified, a response frame read for the token of the lookup is in the *)
(* store until the handler takes it, the poll that finds it returns that   *)
(* response to the handler, and the suspension always ends (with the       *)
(* response or with the timeout of the lookup), so consumer and classifier *)
(* never wait on each other.                                               *)
(***************************************************************************)
ResponseSince(k, t) ==
    \E i \in 1..Len(recvd) : i > k /\ recvd[i].post_type = "none" /\ recvd[i].echo = t

QueuedSince(k) == \E i \in 1..Len(message_queue) : message_queue[i].id > k

C22_NextEventCanStart ==
    (Suspended /\ message_queue # <<>>) => ENABLED message_process

(***************************************************************************)
(* C23: the result of one top-level forward expansion never holds both an  *)
(* image or emoji leaf with fetched base64 content and a text leaf that    *)
(* stands in for another image or emoji, also when some downloads fail.    *)
(***************************************************************************)
PlaceholderTexts == {"[image]", "[emoji]", "<image>", "<emoji>"}

RECURSIVE HasFetchedLeaf(_), HasPlaceholderLeaf(_)
HasFetchedLeaf(v) ==
    \/ v.type \in {"image", "emoji"} /\ v.data = "base64"
    \/ \E i \in 1..Len(v.kids) : HasFetchedLeaf(v.kids[i])

HasPlaceholderLeaf(v) ==
    \/ v.type = "text" /\ v.data \in PlaceholderTexts
    \/ \E i \in 1..Len(v.kids) : HasPlaceholderLeaf(v.kids[i])

C23_ImageTreatmentNeverMixed ==
    forward_result.status = "returned" =>
        ~(HasFetchedLeaf(forward_result.value) /\ HasPlaceholderLeaf(forward_result.value))

(***************************************************************************)
(* C24: every node of the tree that forward expansion builds is a Segment  *)
(* of type text, image, emoji or seglist, only seglist nodes have          *)
(* children, and every child of a seglist is such a Segment again, at      *)
(* every depth: no child is None and no child is a value of another kind.  *)
(***************************************************************************)
RECURSIVE WellFormedSeg(_)
WellFormedSeg(v) ==
    /\ v.type \in {"text", "image", "emoji", "seglist"}
    /\ v.type # "seglist" => v.kids = <<>>
    /\ \A i \in 1..Len(v.kids) : WellFormedSeg(v.kids[i])

C24_TreeIsWellFormed ==
    (forward_result.status # "none" /\ handled_message # NoneValue) =>
        WellFormedSeg(handled_message)

(***************************************************************************)
(* C25: when the get_forward_msg lookup of a forward element fails or      *)
(* times out, only that forward segment is missing from the output: the    *)
(* MessageBase submitted for the event holds exactly the segments that the *)
(* sibling elements before and after it produce.                           *)
(***************************************************************************)
Buildable(event) == SenderBranch(event.message_type, event.sub_type, event.sender) = "build"

FailedForward(e) == e.type = "forward" /\ ~e.fetched

NotFailedForward(e) == ~FailedForward(e)

C25_FailedForwardDropsOnlyItself ==
    LET msg == raw_message.message
        siblings == handle_real_message(SelectSeq(msg, NotFailedForward), FALSE).value
    IN  (/\ raw_pc # "idle"
         /\ Buildable(raw_message)
         /\ \E i \in 1..Len(msg) : FailedForward(msg[i])
         /\ siblings.type = "seglist" /\ siblings.kids # <<>>)
        => /\ raw_pc = "submitted"
           /\ submitted[Len(submitted)].message_segment = siblings

(***************************************************************************)
(* C26: when the download of an image element fails, the output has a text *)
(* placeholder segment at the position of that element and the segments of *)
(* the sibling elements are as they would be; stated for messages of text  *)
(* and image elements, each of which stands for one segment.               *)
(***************************************************************************)
FailedImage(e) == e.type = "image" /\ FetchFails(e.url)

C26_FailedImageGivesPlaceholder ==
    LET msg == raw_message.message
    IN  (/\ raw_pc # "idle"
         /\ Buildable(raw_message)
         /\ \A i \in 1..Len(msg) : msg[i] \in TextElements \cup ImageElements
         /\ \E i \in 1..Len(msg) : FailedImage(msg[i]))
        => /\ raw_pc = "submitted"
           /\ LET out == submitted[Len(submitted)].message_segment.kids
              IN  /\ Len(out) = Len(msg)
                  /\ \A i \in 1..Len(msg) :
                        IF FailedImage(msg[i]) THEN out[i].type = "text"
                        ELSE <<out[i]>> = ElementOutcome(msg[i], FALSE).segs

(***************************************************************************)
(* C27: reply expansion is one level deep and always completes: handling   *)
(* an event sends at most one get_msg request per reply element of its     *)
(* message list, however the quoted messages quote each other, and for     *)
(* every reply element whose quoted message was fetched                    *)
(* handle_reply_message returns the framed segment list, also when the     *)
(* quoted message gives no segments.                                       *)
(***************************************************************************)
IsReplyElement(e) == e.type = "reply"

C27_ReplyOneLevelAndCompletes ==
    LET msg == raw_message.message
    IN  (raw_pc # "idle" /\ Buildable(raw_message) /\ msg # <<>>)
        => /\ raw_lookups <= Len(SelectSeq(msg, IsReplyElement))
           /\ \A i \in 1..Len(msg) :
                 (IsReplyElement(msg[i]) /\ msg[i].fetched) =>
                     LET ret_seg == handle_reply_message(msg[i])
                     IN  /\ ret_seg.st = "ok"
                         /\ Len(ret_seg.segs) >= 2

(***************************************************************************)
(* C28: the outbound flatten is recursive: for a Segment tree of any       *)
(* nesting depth (without the reply of a notice, which empties the         *)
(* payload), every text, image and emoji leaf, also a leaf inside a        *)
(* seglist nested in the root seglist, yields exactly one gateway element, *)
(* the elements that are not replies stand in the depth-first order of     *)
(* their leaves, and face leaves yield nothing.                            *)
(***************************************************************************)
NotReplyElement(element) == element.type # "reply"

NoNoticeReply(leaves) ==
    \A i \in 1..Len(leaves) : ~(IsReply(leaves[i]) /\ leaves[i].data = "notice")

C28_FlattenIsRecursive ==
    (Flattened /\ NoNoticeReply(LeavesOf(message_segment))) =>
        LET leaves == SelectSeq(LeavesOf(message_segment), Emits)
            out == SelectSeq(processed_message, NotReplyElement)
        IN  /\ Len(out) = Len(leaves)
            /\ \A i \in 1..Len(leaves) :
                  out[i].type = (IF leaves[i].type = "emoji" THEN "image" ELSE leaves[i].type)

(***************************************************************************)
(* C29 as stated: each handle_seg whose flattened payload is not empty     *)
(* sends exactly one request, whatever the response; one whose payload is  *)
(* empty sends none.                                                       *)
(***************************************************************************)
Distinct(echoes) ==
    \A i, j \in 1..Len(echoes) : echoes[i] = echoes[j] => i = j

C29_OneSendPerPayload ==
    Flattened =>
        /\ Len(sent_echoes) = (IF processed_message # <<>> THEN 1 ELSE 0)
        /\ Distinct(sent_echoes)

(***************************************************************************)
(* C29 amended: each handle_seg whose flattened payload is not empty and   *)
(* whose message names a user sends exactly one request, with a token of   *)
(* its own, and never a second one, whether the response is ok, not ok or  *)
(* never arrives; a handle_seg whose payload is empty, or whose message    *)
(* names neither group nor user, sends no request.                         *)
(***************************************************************************)
C29_OneSendNoRetry ==
    Flattened =>
        /\ processed_message = <<>> => (send_pc = "nothing" /\ sent_echoes = <<>>)
        /\ send_pc = "unknown" => (processed_message # <<>> /\ sent_echoes = <<>>)
        /\ (processed_message # <<>> /\ send_pc # "unknown") =>
              (send_pc = "sent" /\ Len(sent_echoes) = 1)
        /\ Distinct(sent_echoes)
        /\ send_end # "" => send_pc = "sent"

\* A request was sent and its response was not ok.
C29_Witness ==
    /\ send_pc = "sent"
    /\ send_end = "failed"
    /\ processed_message # <<>>
    /\ Len(sent_echoes) = 1

(***************************************************************************)
(* C30: a watchdog declares the connection Lost only at one of its checks  *)
(* and only when now - last_heart_beat > interval + 3 there; a check that  *)
(* finds a healthy heartbeat (or the connect) within interval + 3 seconds  *)
(* keeps watching; and when the heartbeats have stopped, every watchdog    *)
(* eventually declares Lost, after which it checks no more.                *)
(***************************************************************************)
Watching(i) == watchdog[i].pc = "watching"

Silent == hb_time - last_heart_beat > interval + HeartbeatGrace

C30_LostOnlyAfterSilence ==
    /\ [][\A i \in Watchdogs :
            /\ (Watching(i) /\ watchdog'[i].pc = "lost") => (check_heartbeat(i) /\ Silent)
            /\ (check_heartbeat(i) /\ ~Silent) => watchdog'[i].pc = "watching"
            /\ (check_heartbeat(i) /\ Silent) => watchdog'[i].pc = "lost"
            /\ watchdog[i].pc = "lost" => ~ENABLED check_heartbeat(i)]_vars
    /\ \A i \in Watchdogs : [](Watching(i) => <>(watchdog[i].pc = "lost"))

\* A watchdog has kept watching over a healthy heartbeat that announced a
\* longer interval, and has declared Lost after the heartbeats stopped.
C30_Witness ==
    /\ lifecycles = 1
    /\ watchdog[1].pc = "lost"
    /\ interval = napcat_heartbeat_interval + 1
    /\ last_heart_beat > 0
    /\ watchdog[1].wake > last_heart_beat
    /\ Silent

(***************************************************************************)
(* C31: at every moment at most one check_heartbeat task is running, also  *)
(* when a second lifecycle connect event arrives while the watchdog of the *)
(* first is still watching.                                                *)
(***************************************************************************)
RunningWatchdogs == {i \in Watchdogs : watchdog[i].pc = "watching"}

C31_OneWatchdog == Cardinality(RunningWatchdogs) <= 1

(***************************************************************************)
(* C32: in the run loop of a client, Connected implies retry_count = 0 and *)
(* an open socket; a failed connection attempt leaves the client not       *)
(* Connected and adds one to retry_count; after a failed attempt and after *)
(* a close the loop sleeps and tries again as long as stop() has not been  *)
(* called; and once stop() has been called no new attempt is begun and the *)
(* loop ends.                                                              *)
(***************************************************************************)
C32_RunLoopInvariant ==
    [][\A p \in Platforms :
         (p \in DOMAIN clients /\ p \in DOMAIN client_tasks) =>
            /\ clients[p].connected => (clients[p].retry_count = 0 /\ clients[p].ws = "open")
            /\ HandshakeFail(p) =>
                  /\ ~clients'[p].connected
                  /\ clients'[p].retry_count = clients[p].retry_count + 1
            /\ ((HandshakeFail(p) \/ ConnectionDrops(p)) /\ clients[p].running) =>
                  client_tasks'[p] = "backoff"
            /\ (BackoffEnds(p) /\ clients[p].running) => client_tasks'[p] = "handshake"
            /\ ~clients[p].running =>
                  /\ (client_tasks'[p] = "handshake" => client_tasks[p] = "handshake")
                  /\ (client_tasks'[p] = "backoff" => client_tasks[p] = "backoff")
                  /\ client_tasks[p] \in {"start", "backoff"} => client_tasks'[p] \in {client_tasks[p], "done"}]_vars

\* A client that failed twice and was then stopped has ended its loop.
C32_Witness ==
    \E p \in Platforms :
        /\ p \in DOMAIN clients /\ p \in DOMAIN client_tasks
        /\ ~clients[p].running
        /\ clients[p].retry_count = 2
        /\ client_tasks[p] = "done"

(***************************************************************************)
(* C33: while the router runs, no run task of a client that was replaced   *)
(* or removed is still running, and the platforms that have a client are   *)
(* the platforms that have a run task in the task map.                     *)
(***************************************************************************)
C33_OneTaskPerPlatform ==
    router_running =>
        /\ \A i \in DOMAIN orphan_tasks : ~Live(orphan_tasks[i].pc)
        /\ DOMAIN clients = DOMAIN client_tasks

(***************************************************************************)
(* C34: when Router.stop() completes the monitor task has ended, every run  *)
(* task has finished, the clients map and the task map are empty and no    *)
(* client is Connected; and afterwards no run task begins a connection     *)
(* attempt.                                                                *)
(***************************************************************************)
AllTasksFinished ==
    /\ \A p \in DOMAIN client_tasks : ~Live(client_tasks[p])
    /\ \A i \in DOMAIN orphan_tasks : ~Live(orphan_tasks[i].pc)

C34_StopShutsDown ==
    [][/\ StopFinish =>
            /\ mon_pc' \in {"off", "dead"}
            /\ AllTasksFinished'
            /\ clients' = EmptyDict /\ client_tasks' = EmptyDict
       /\ stop_pc = "stopped" =>
            \A i \in DOMAIN orphan_tasks :
                orphan_tasks'[i].pc = "handshake" => orphan_tasks[i].pc = "handshake"]_vars

(***************************************************************************)
(* C35: while the router runs, the monitor task does not end with an       *)
(* error, whatever update_config (with its remove_platform and             *)
(* add_platform) does between the steps of a reconnect.                    *)
(***************************************************************************)
C35_MonitorKeepsSupervising == router_running => mon_pc # "dead"

(***************************************************************************)
(* C36: a pass of the sweep never removes an entry whose token has a       *)
(* get_response caller that is still polling, and a caller that polls      *)
(* while the response of its token is stored returns with that response.   *)
(* This is for every configured heartbeat interval.                        *)
(***************************************************************************)
Awaited(t) == \E w \in Waiters : wpc[w] = "poll" /\ wreq[w] = t

RemovesAwaited ==
    \E t \in (DOMAIN response_dict) \ DOMAIN response_dict' : Awaited(t)

Delivered(w) ==
    (wpc[w] = "poll" /\ wreq[w] \in DOMAIN response_dict /\ wpc'[w] # "poll") =>
        (wpc'[w] = "returned" /\ wres'[w] = response_dict[wreq[w]])

C36_SweepSparesAwaited ==
    [][/\ TimedSweep => ~RemovesAwaited
       /\ \A w \in Waiters : Delivered(w)]_vars

(***************************************************************************)
(* C37: when the handler of a queued event raises, the event is abandoned  *)
(* and the consumer loop goes on: it sleeps and takes the events that are  *)
(* queued after it.                                                        *)
(***************************************************************************)
C37_ConsumerSurvivesHandlerError ==
    [][HandlerRaises => cpc' \in {"sleep", "get"}]_vars

(***************************************************************************)
(* C38: whenever an accepted websocket of a platform is active,            *)
(* platform_websockets maps the platform to an active websocket of that    *)
(* platform, whatever the order of connects and disconnects.               *)
(***************************************************************************)
ActiveOf(platform) == {ws \in active_websockets : ws_platform[ws] = platform}

C38_PlatformHasLiveSocket ==
    \A platform \in Platforms :
        ActiveOf(platform) # {} =>
            /\ platform \in DOMAIN platform_websockets
            /\ platform_websockets[platform] \in ActiveOf(platform)

(***************************************************************************)
(* C39: wherever another task can run, a token is a key of response_dict   *)
(* exactly when it is a key of response_time_dict, after any interleaving  *)
(* of put_response, get_response and the sweep; so no pop of get_response  *)
(* or of the sweep meets a key that one of the two maps lacks.             *)
(***************************************************************************)
C39_SameKeys == DOMAIN response_dict = DOMAIN response_time_dict

\* The sweep has removed an entry, a caller has claimed one.
C39_Witness ==
    /\ warning_log >= 1
    /\ \E w \in Waiters : wpc[w] = "returned"

====
